---- MODULE Spec2Model ----
(***************************************************************************)
(* Page-acquisition engine of the spider crawler (spider/src/utils/mod.rs): *)
(* the streaming HTTP backends (raw, and disk-spillover under the fs       *)
(* feature), the browser-driven fetch with its HTTP fallback, and the      *)
(* crawl control bus.                                                      *)
(*                                                                         *)
(* Bytes are modelled as sequences of segments.  A segment is a slice of   *)
(* one body chunk of one fetch, [src, idx, off, len]: the code never looks *)
(* inside a chunk, it only appends, writes and reads whole buffers, and    *)
(* the file system cuts them at byte offsets.  Lengths are real byte       *)
(* counts, so every threshold of the code keeps its value.                 *)
(***************************************************************************)
EXTENDS Integers, Sequences, FiniteSets, TLC

(* ------------------------------ bounds -------------------------------- *)

\* Stream items (chunks or stream errors) one response body may yield.
MaxItems == 3

\* Fetches that may run at the same time.
FetchIds == {1, 2}

\* Sizes a body chunk may have, in bytes.
ChunkSizes == {1, 5000, 8192, 1048576}

(* ------------------------------ options ------------------------------- *)

None == <<>>
Some(x) == <<x>>
IsSome(o) == o # <<>>
Unwrap(o) == o[1]

Max(a, b) == IF a >= b THEN a ELSE b

(* ------------------------------ strings ------------------------------- *)

\* Strings the code transforms are sequences of one-character strings.
UrlX == <<"h", "t", "t", "p", ":", "/", "/", "a", ".", "t", "/", "x">>
UrlY == <<"h", "t", "t", "p", ":", "/", "/", "a", ".", "t", "/", "y">>
Urls == {UrlX, UrlY}

AlphaNumeric ==
    {"a", "b", "c", "d", "e", "f", "g", "h", "i", "j", "k", "l", "m", "n", "o",
     "p", "q", "r", "s", "t", "u", "v", "w", "x", "y", "z",
     "A", "B", "C", "D", "E", "F",
     "0", "1", "2", "3", "4", "5", "6", "7", "8", "9"}

\* The two hexadecimal digits of a character's byte (the ASCII table).
HexOfByte(c) ==
    CASE c = ":" -> <<"3", "A">>
      [] c = "/" -> <<"2", "F">>
      [] c = "." -> <<"2", "E">>
      [] c = "%" -> <<"2", "5">>
      [] c = "-" -> <<"2", "D">>
      [] OTHER   -> <<"0", "0">>

\* utf8_percent_encode(target_url, NON_ALPHANUMERIC).to_string()
RECURSIVE utf8_percent_encode(_)
utf8_percent_encode(s) ==
    IF s = <<>> THEN <<>>
    ELSE (IF Head(s) \in AlphaNumeric
          THEN <<Head(s)>>
          ELSE <<"%">> \o HexOfByte(Head(s)))
         \o utf8_percent_encode(Tail(s))

(* ------------------------- MAX_SIZE_BYTES ----------------------------- *)

DEFAULT_MAX_SIZE_BYTES == 1073741824
MIN_MAX_SIZE_BYTES == 1048576

Digits == {"0", "1", "2", "3", "4", "5", "6", "7", "8", "9"}

DigitValue(c) ==
    CASE c = "0" -> 0 [] c = "1" -> 1 [] c = "2" -> 2 [] c = "3" -> 3
      [] c = "4" -> 4 [] c = "5" -> 5 [] c = "6" -> 6 [] c = "7" -> 7
      [] c = "8" -> 8 [] c = "9" -> 9

RECURSIVE DecimalValue(_, _)
DecimalValue(s, acc) ==
    IF s = <<>> THEN acc
    ELSE DecimalValue(Tail(s), acc * 10 + DigitValue(Head(s)))

\* str::parse::<usize>(): None for an empty string or any non-digit (one
\* leading "+" is accepted); the values used here are far below usize::MAX.
ParseUsize(s) ==
    LET body == IF s # <<>> /\ Head(s) = "+" THEN Tail(s) ELSE s
    IN  IF body # <<>> /\ \A i \in 1..Len(body) : body[i] \in Digits
        THEN Some(DecimalValue(body, 0))
        ELSE None

\* Values of the environment variable SPIDER_MAX_SIZE_BYTES: None when unset.
\* "0xFF" stands for a byte that is not part of any UTF-8 text.
EnvValues ==
    { None,
      Some(<<"0">>),
      Some(<<"1">>),
      Some(<<"1", "0", "4", "8", "5", "7", "6">>),
      Some(<<"2", "0", "9", "7", "1", "5", "2">>),
      Some(<<"1", "m", "b">>),
      Some(<<"0xFF">>) }

\* std::env::var: Ok with the value when the variable is set and its value
\* is valid Unicode, Err (NotPresent, NotUnicode) otherwise.
env_var(var) ==
    IF IsSome(var) /\ \A i \in 1..Len(Unwrap(var)) : Unwrap(var)[i] # "0xFF"
    THEN var
    ELSE None

\* lazy_static MAX_SIZE_BYTES, from the variable's value at first use.
MAX_SIZE_BYTES(var) ==
    IF IsSome(env_var(var))
    THEN LET p == ParseUsize(Unwrap(env_var(var)))
             b == IF IsSome(p) THEN Unwrap(p) ELSE DEFAULT_MAX_SIZE_BYTES
         IN  IF b = 0 THEN 0 ELSE Max(b, MIN_MAX_SIZE_BYTES)
    ELSE 0

(* ------------------------------ bytes --------------------------------- *)

\* The i-th chunk of fetch f's response body, n bytes long.
Chunk(f, i, n) == [src |-> f, idx |-> i, off |-> 0, len |-> n]

\* k zero bytes: the hole a write past the end of a file leaves.
Zeros(k) == [src |-> 0, idx |-> 0, off |-> 0, len |-> k]

RECURSIVE BytesLen(_)
BytesLen(b) == IF b = <<>> THEN 0 ELSE Head(b).len + BytesLen(Tail(b))

\* The first n bytes of b.
RECURSIVE TakeBytes(_, _)
TakeBytes(b, n) ==
    IF n <= 0 \/ b = <<>> THEN <<>>
    ELSE IF Head(b).len <= n
         THEN <<Head(b)>> \o TakeBytes(Tail(b), n - Head(b).len)
         ELSE <<[Head(b) EXCEPT !.len = n]>>

\* b without its first n bytes.
RECURSIVE DropBytes(_, _)
DropBytes(b, n) ==
    IF b = <<>> THEN <<>>
    ELSE IF n <= 0 THEN b
    ELSE IF Head(b).len <= n
         THEN DropBytes(Tail(b), n - Head(b).len)
         ELSE <<[Head(b) EXCEPT !.off = @ + n, !.len = @ - n]>> \o Tail(b)

\* BytesMut: its bytes and the capacity of its allocation.
BytesMutNew == [buf |-> <<>>, cap |-> 0]

\* BytesMut::reserve on a buffer that owns its Vec: nothing when the spare
\* capacity suffices, otherwise Vec's amortised growth.
GrowAmortized(cap, len, additional) ==
    IF additional <= cap - len
    THEN cap
    ELSE Max(Max(2 * cap, len + additional), 8)

\* data.put(text)
Put(d, text) ==
    [buf |-> d.buf \o text,
     cap |-> GrowAmortized(d.cap, BytesLen(d.buf), BytesLen(text))]

\* data.clear(): the length goes to zero, the allocation stays.
Clear(d) == [d EXCEPT !.buf = <<>>]

(* --------------------------- the variables ---------------------------- *)

VARIABLES
    env_max_size,   \* SPIDER_MAX_SIZE_BYTES as the process sees it
    tmp_dir,        \* lazy_static TMP_DIR
    dir,            \* file system: path -> inode, or None
    inodes,         \* file system: inode -> bytes
    target_url,     \* per fetch: the URL asked for
    backend,        \* per fetch: "raw", "fs" or "chrome_fallback"
    pc,             \* per fetch: the await point it is suspended at
    rd,             \* per fetch: the redirect target
    status_code,    \* per fetch: the response's status
    data,           \* per fetch: the BytesMut
    file,           \* per fetch: Option<File>, a handle [ino, pos]
    file_path,      \* per fetch: the temp file's path
    text,           \* per fetch: the chunk in hand
    buffer,         \* per fetch: the Vec the file is read back into
    page_response,  \* per fetch: the returned PageResponse, None before
    reader,       \* per fetch: the handle File::open returned
    answered,       \* history: the status and URL the server answered with, if any
    received,       \* history: the Ok chunks the stream yielded, in order
    nitems,         \* history: stream items yielded so far
    created,        \* history: File::create was called
    io_failed,      \* history: a temp-file operation failed
    io_faults,      \* whether temp-file operations may fail in this run
    chunk_sizes     \* the chunk sizes the servers of this run produce

fetch_vars ==
    <<env_max_size, tmp_dir, dir, inodes, target_url, backend, pc, rd,
      status_code, data, file, file_path, text, buffer, page_response,
      reader, answered, received, nitems, created, io_failed, io_faults,
      chunk_sizes>>

VARIABLES
    bus,            \* the value the watch channel of CONTROLLER holds
    receivers,      \* Receiver handles alive, the one CONTROLLER keeps included
    call,           \* per task: the control call in progress, None when idle
    subscribed,     \* per crawl loop: whether it holds a Receiver
    seen,           \* per crawl loop: the value it last read
    ncalls,         \* history: control calls made so far
    last_call,      \* history: the call whose send ran last
    last_for        \* history: per target, the call for it whose send ran last

bus_vars ==
    <<bus, receivers, call, subscribed, seen, ncalls, last_call, last_for>>

VARIABLES
    c_pc,           \* the step the browser-driven fetch is at
    c_entry,        \* the function the caller called
    c_args,         \* the arguments fetch_page_html_chrome_base was given
    c_features,     \* the cargo features of the build
    c_trace,        \* the steps performed on the page and the cache, in order
    c_req_res,      \* chrome_http_req_res
    c_final_url,    \* final_url
    c_res,          \* res, the captured body
    c_next_content, \* next_content of cf_handle, None before a re-capture
    c_page_response,\* page_response, None before it is built
    c_result,       \* what fetch_page_html_chrome_base returned, None before
    c_response,     \* what the caller of a wrapper received, None before
    c_navigation,   \* history: what wait_for_navigation_response gave
    c_cache         \* history: the outcome of the cache write

VARIABLES
    w_pc,           \* the step page_wait is at
    w_wait_for,     \* the wait_for argument of page_wait
    w_events,       \* the page's event stream: "open" or "ended"
    w_present,      \* whether the selected element is in the page
    w_lookup,       \* whether an element lookup answers within 50 ms
    w_turn,         \* the parity of the turn of the loop page_wait is in
    w_trace         \* history: the waits page_wait has run, in order

wait_vars ==
    <<w_pc, w_wait_for, w_events, w_present, w_lookup, w_turn, w_trace>>

\* The arguments and the build of a browser-driven fetch.
c_call == <<c_entry, c_args, c_features>>

browser_vars ==
    <<c_pc, c_call, c_trace, c_req_res, c_final_url, c_res, c_next_content,
      c_page_response,
      c_result, c_response, c_navigation, c_cache>>

VARIABLES
    n_pc,           \* the step the navigation and its cache write are at
    n_source,       \* source, the URL asked for
    n_http_future,  \* what page.http_future(..).await answers
    n_req_res,      \* the ChromeHTTPReqRes perform_chrome_http_request built
    n_policy        \* history: the two sides CachePolicy::new was given

nav_vars == <<n_pc, n_source, n_http_future, n_req_res, n_policy>>

chrome_vars == <<browser_vars, wait_vars, nav_vars>>

VARIABLES
    a_pc,           \* the step run_openai_request is at
    a_openai_config,\* the openai_config argument
    a_ok,           \* the ok argument
    a_prompts,      \* prompts, the prompts not yet taken
    a_prompt,       \* prompt, the prompt of the current turn of the loop
    a_json_res,     \* json_res of the current turn
    a_gpt_error,    \* gpt_error of the current turn
    a_html,         \* html, what evaluate_function gave in the current turn
    a_page_response,\* the PageResponse run_openai_request works on
    a_asked         \* history: per turn, the prompt and what the AI answered

prompt_vars ==
    <<a_pc, a_openai_config, a_ok, a_prompts, a_prompt, a_json_res,
      a_gpt_error, a_html, a_page_response, a_asked>>

VARIABLES
    s_permits,      \* the permits SEM has left
    s_pc,           \* per request, the step openai_request_base is at
    s_queue,        \* the requests waiting in SEM.acquire(), oldest first
    s_path          \* history: per request, the path it returned by

sem_vars == <<s_permits, s_pc, s_queue, s_path>>

VARIABLES
    m_pc,           \* the step the building of the message is at
    m_args,         \* the page, the prompt and the model openai_request_base is given
    m_resource,     \* resource, the text the message will carry
    m_stages        \* history: the cleaning stages applied, in order

clean_vars == <<m_pc, m_args, m_resource, m_stages>>

openai_vars == <<prompt_vars, sem_vars, clean_vars>>

(* ---------------------------- HTTP side ------------------------------- *)

\* reqwest::StatusCode values a server answers with.
Statuses == {200, 404, 503}

\* StatusCode::default()
DefaultStatus == 200

is_success(s) == 200 <= s /\ s <= 299

\* client.get(target_url).send().await: a transport error, or a response
\* with its status and the URL it finally came from.
SendResults ==
    {[ok |-> FALSE, status |-> 0, url |-> <<>>]}
        \cup [ok : {TRUE}, status : Statuses, url : Urls]

\* PageResponse::default()
DefaultPageResponse ==
    [content |-> None, headers |-> None, status_code |-> DefaultStatus,
     final_url |-> None, error_for_status |-> None, screenshot_bytes |-> None,
     openai_credits_used |-> None, extra_ai_data |-> None]

\* lazy_static TMP_DIR: the spider directory under the temp dir followed by
\* the seconds since the epoch; "/tmp/" when the directory cannot be made.
TMP_DIR(dir_ok, clock_ok) ==
    IF dir_ok
    THEN IF clock_ok THEN <<"/tmp/spider/", "secs">> ELSE <<"/tmp/spider/">>
    ELSE <<"/tmp/">>

TmpDirs == {TMP_DIR(d, c) : d \in BOOLEAN, c \in BOOLEAN}

Paths == {t \o utf8_percent_encode(u) : t \in TmpDirs, u \in Urls}

\* What stream.next().await yields: the end of the body, a stream error, or
\* the next chunk.
StreamItems(f) ==
    {[kind |-> "end", len |-> 0]}
        \cup (IF nitems[f] < MaxItems
              THEN {[kind |-> "err", len |-> 0]}
                       \cup [kind : {"ok"}, len : chunk_sizes]
              ELSE {})

\* The chunk an Ok item carries.
ItemText(f, item) == <<Chunk(f, nitems[f] + 1, item.len)>>

\* The history of a stream item.
Yield(f, item) ==
    /\ nitems' = [nitems EXCEPT ![f] = IF item.kind = "end" THEN @ ELSE @ + 1]
    /\ received' = [received EXCEPT
                      ![f] = IF item.kind = "ok" THEN @ \o ItemText(f, item) ELSE @]

\* A final_url that is set whether or not the URL changed.
Redirect_Always(b, url, u) == Some(u)

\* if target_url != u { Some(u.into()) } else { None }; the fallback coded
\* inside fetch_page_html_chrome sets no final_url.
Redirect(b, url, u) ==
    IF b = "chrome_fallback" THEN None
    ELSE IF url # u THEN Some(u) ELSE None

\* An error arm that answers with an empty body.
ErrResponse_EmptyBody == [DefaultPageResponse EXCEPT !.content = Some(<<>>)]

\* Err(_) => { log("- error parsing html text {}", target_url); Default::default() }
ErrResponse == DefaultPageResponse

\* client.get(target_url).send().await and the match on its result.
Send(f) ==
    /\ pc[f] = "send"
    /\ \E res \in SendResults :
       /\ answered' = [answered EXCEPT
                         ![f] = IF res.ok
                                THEN Some([status |-> res.status, url |-> res.url])
                                ELSE None]
       /\
         IF ~res.ok
         THEN /\ page_response' = [page_response EXCEPT ![f] = Some(ErrResponse)]
              /\ pc' = [pc EXCEPT ![f] = "done"]
              /\ UNCHANGED <<rd, status_code>>
         ELSE IF ~is_success(res.status)
         THEN /\ page_response' =
                    [page_response EXCEPT
                       ![f] = Some([DefaultPageResponse EXCEPT
                                      !.headers = Some("headers"),
                                      !.status_code = res.status])]
              /\ pc' = [pc EXCEPT ![f] = "done"]
              /\ UNCHANGED <<rd, status_code>>
         ELSE /\ rd' = [rd EXCEPT ![f] = Redirect(backend[f], target_url[f], res.url)]
              /\ status_code' = [status_code EXCEPT ![f] = res.status]
              /\ pc' = [pc EXCEPT ![f] = "stream"]
              /\ UNCHANGED page_response
    /\ UNCHANGED <<env_max_size, tmp_dir, dir, inodes, target_url, backend, data,
                   file, file_path, text, buffer, reader, received, nitems,
                   created, io_failed, io_faults, chunk_sizes>>
    /\ UNCHANGED <<bus_vars, chrome_vars, openai_vars>>

\* The PageResponse of a successful response whose body is `content`.
SuccessResponse(f, content) ==
    [DefaultPageResponse EXCEPT
       !.content = Some(content), !.headers = Some("headers"),
       !.status_code = status_code[f], !.final_url = rd[f]]

\* The check made on the buffer alone, before the chunk is counted.
ExceedsLimit_BufferOnly(limit, data_len, text_len) ==
    limit > 0 /\ data_len > limit

\* if limit > 0 && data.len() + text.len() > limit { break; }
ExceedsLimit(limit, data_len, text_len) ==
    limit > 0 /\ data_len + text_len > limit

\* One turn of the body loop of fetch_page_html_raw (and of the fallback in
\* fetch_page_html_chrome), and the PageResponse built when the loop ends.
RawStreamNext(f) ==
    /\ pc[f] = "stream"
    /\ backend[f] \in {"raw", "chrome_fallback"}
    /\ \E item \in StreamItems(f) :
         /\ Yield(f, item)
         /\ IF \/ item.kind = "end"
               \/ /\ item.kind = "ok"
                  /\ ExceedsLimit(MAX_SIZE_BYTES(env_max_size),
                                  BytesLen(data[f].buf), item.len)
            THEN /\ page_response' =
                      [page_response EXCEPT
                         ![f] = Some(SuccessResponse(f, data[f].buf))]
                 /\ pc' = [pc EXCEPT ![f] = "done"]
                 /\ UNCHANGED data
            ELSE /\ data' = [data EXCEPT
                              ![f] = IF item.kind = "ok"
                                     THEN Put(@, ItemText(f, item)) ELSE @]
                 /\ UNCHANGED <<page_response, pc>>
    /\ UNCHANGED <<answered, env_max_size, tmp_dir, dir, inodes, target_url, backend, rd,
                   status_code, file, file_path, text, buffer, reader, created,
                   io_failed, io_faults, chunk_sizes>>
    /\ UNCHANGED <<bus_vars, chrome_vars, openai_vars>>

(* ----------------------- disk-spillover backend ----------------------- *)

\* The capacity from which the body goes to disk.
SPILL_CAPACITY == 8192

\* Outcomes of a temp-file operation that moves no bytes.
IoOutcomes == IF io_faults THEN {"ok", "err"} ELSE {"ok"}

\* Outcomes of a write or a read: all the bytes, an error before any byte,
\* or an error after the first byte.
TransferOutcomes == IF io_faults THEN {"ok", "err", "torn"} ELSE {"ok"}

Transferred(out, b) ==
    IF out = "ok" THEN b ELSE IF out = "torn" THEN TakeBytes(b, 1) ELSE <<>>

\* The bytes of a file after `b` is written at offset `pos`.
WriteAt(content, pos, b) ==
    IF b = <<>> THEN content
    ELSE IF pos > BytesLen(content)
    THEN content \o <<Zeros(pos - BytesLen(content))>> \o b
    ELSE TakeBytes(content, pos) \o b \o DropBytes(content, pos + BytesLen(b))

\* string_concat!(TMP_DIR, &utf8_percent_encode(target_url, NON_ALPHANUMERIC).to_string())
FilePath(url) == tmp_dir \o utf8_percent_encode(url)

\* !wrote_disk && data.capacity() < 8192
InMemory(wrote_disk, d) == ~wrote_disk /\ d.cap < SPILL_CAPACITY

\* One turn of the body loop of fetch_page_html (fs) up to its first await
\* on the temp file, and what follows the loop when the body has ended.
FsStreamNext(f) ==
    /\ pc[f] = "stream"
    /\ backend[f] = "fs"
    /\ \E item \in StreamItems(f) :
         LET wrote_disk == IsSome(file[f])
             in_memory  == InMemory(wrote_disk, data[f])
             next == IF item.kind = "end"
                     THEN IF wrote_disk THEN "open" ELSE "done"
                     ELSE IF item.kind = "err" \/ in_memory THEN "stream"
                     ELSE IF ~wrote_disk THEN "create" ELSE "write_chunk"
         IN  /\ Yield(f, item)
             /\ pc' = [pc EXCEPT ![f] = next]
             /\ data' = [data EXCEPT
                           ![f] = IF item.kind = "ok" /\ in_memory
                                  THEN Put(@, ItemText(f, item)) ELSE @]
             /\ text' = [text EXCEPT
                           ![f] = IF item.kind = "ok" /\ ~in_memory
                                  THEN ItemText(f, item) ELSE @]
             /\ file_path' = [file_path EXCEPT
                                ![f] = IF next = "create"
                                       THEN FilePath(target_url[f]) ELSE @]
             /\ page_response' =
                    [page_response EXCEPT
                       ![f] = IF next = "done"
                              THEN Some(SuccessResponse(f, data[f].buf)) ELSE @]
    /\ UNCHANGED <<answered, env_max_size, tmp_dir, dir, inodes, target_url, backend, rd,
                   status_code, file, buffer, reader, created, io_failed,
                   io_faults, chunk_sizes>>
    /\ UNCHANGED <<bus_vars, chrome_vars, openai_vars>>

\* tokio::fs::File::create(&file_path).await: the file is made, or emptied
\* when it exists; then data.put(text) on either outcome.
FsCreate(f) ==
    /\ pc[f] = "create"
    /\ \E out \in IoOutcomes :
         LET path == file_path[f]
             ino  == IF IsSome(dir[path]) THEN Unwrap(dir[path]) ELSE f
         IN  /\ dir' = IF out = "ok" THEN [dir EXCEPT ![path] = Some(ino)] ELSE dir
             /\ inodes' = IF out = "ok" THEN [inodes EXCEPT ![ino] = <<>>] ELSE inodes
             /\ file' = [file EXCEPT
                           ![f] = IF out = "ok"
                                  THEN Some([ino |-> ino, pos |-> 0]) ELSE @]
             /\ created' = [created EXCEPT ![f] = @ \/ out = "ok"]
             /\ io_failed' = [io_failed EXCEPT ![f] = @ \/ out # "ok"]
             /\ pc' = [pc EXCEPT ![f] = IF out = "ok" THEN "write_spill" ELSE "stream"]
    /\ data' = [data EXCEPT ![f] = Put(@, text[f])]
    /\ UNCHANGED <<answered, env_max_size, tmp_dir, target_url, backend, rd, status_code,
                   file_path, text, buffer, page_response, reader, received,
                   nitems, io_faults, chunk_sizes>>
    /\ UNCHANGED <<bus_vars, chrome_vars, openai_vars>>

\* file.write_all(b).await through fetch f's handle.
WriteAll(f, out, b) ==
    LET h == Unwrap(file[f])
        w == Transferred(out, b)
    IN  /\ inodes' = [inodes EXCEPT ![h.ino] = WriteAt(@, h.pos, w)]
        /\ file' = [file EXCEPT ![f] = Some([h EXCEPT !.pos = @ + BytesLen(w)])]
        /\ io_failed' = [io_failed EXCEPT ![f] = @ \/ out # "ok"]

\* The spill that writes the chunk in hand without the bytes buffered so far.
SpillBytes_TextOnly(d, t) == t

\* data.as_bytes(), after data.put(text): what the first write carries.
SpillBytes(d, t) == d.buf

\* file.write_all(data.as_bytes()).await, and data.clear() when it is Ok.
FsWriteSpill(f) ==
    /\ pc[f] = "write_spill"
    /\ \E out \in TransferOutcomes :
         /\ WriteAll(f, out, SpillBytes(data[f], text[f]))
         /\ data' = [data EXCEPT ![f] = IF out = "ok" THEN Clear(@) ELSE @]
    /\ pc' = [pc EXCEPT ![f] = "stream"]
    /\ UNCHANGED <<answered, env_max_size, tmp_dir, dir, target_url, backend, rd,
                   status_code, file_path, text, buffer, page_response, reader,
                   received, nitems, created, io_faults, chunk_sizes>>
    /\ UNCHANGED <<bus_vars, chrome_vars, openai_vars>>

\* file.write_all(&text).await, and data.put(text) when it is not Ok.
FsWriteChunk(f) ==
    /\ pc[f] = "write_chunk"
    /\ \E out \in TransferOutcomes :
         /\ WriteAll(f, out, text[f])
         /\ data' = [data EXCEPT ![f] = IF out = "ok" THEN @ ELSE Put(@, text[f])]
    /\ pc' = [pc EXCEPT ![f] = "stream"]
    /\ UNCHANGED <<answered, env_max_size, tmp_dir, dir, target_url, backend, rd,
                   status_code, file_path, text, buffer, page_response, reader,
                   received, nitems, created, io_faults, chunk_sizes>>
    /\ UNCHANGED <<bus_vars, chrome_vars, openai_vars>>

\* let mut buffer = vec![]; tokio::fs::File::open(&file_path).await
FsOpen(f) ==
    /\ pc[f] = "open"
    /\ \E out \in IoOutcomes :
         LET ok == IsSome(dir[file_path[f]]) /\ out = "ok"
         IN  /\ reader' = [reader EXCEPT
                             ![f] = IF ok THEN dir[file_path[f]] ELSE None]
             /\ io_failed' = [io_failed EXCEPT ![f] = @ \/ ~ok]
             /\ pc' = [pc EXCEPT ![f] = IF ok THEN "read" ELSE "remove"]
    /\ buffer' = [buffer EXCEPT ![f] = <<>>]
    /\ UNCHANGED <<answered, env_max_size, tmp_dir, dir, inodes, target_url, backend, rd,
                   status_code, data, file, file_path, text, page_response,
                   received, nitems, created, io_faults, chunk_sizes>>
    /\ UNCHANGED <<bus_vars, chrome_vars, openai_vars>>

\* b.read_to_end(&mut buffer).await, its result dropped.
FsRead(f) ==
    /\ pc[f] = "read"
    /\ \E out \in TransferOutcomes :
         /\ buffer' = [buffer EXCEPT
                         ![f] = Transferred(out, inodes[Unwrap(reader[f])])]
         /\ io_failed' = [io_failed EXCEPT ![f] = @ \/ out # "ok"]
    /\ pc' = [pc EXCEPT ![f] = "remove"]
    /\ UNCHANGED <<answered, env_max_size, tmp_dir, dir, inodes, target_url, backend, rd,
                   status_code, data, file, file_path, text, page_response,
                   reader, received, nitems, created, io_faults, chunk_sizes>>
    /\ UNCHANGED <<bus_vars, chrome_vars, openai_vars>>

\* tokio::fs::remove_file(file_path).await, its result dropped; then the
\* PageResponse with buffer.into() as its content.
FsRemove(f) ==
    /\ pc[f] = "remove"
    /\ \E out \in IoOutcomes :
         LET ok == IsSome(dir[file_path[f]]) /\ out = "ok"
         IN  /\ dir' = IF ok THEN [dir EXCEPT ![file_path[f]] = None] ELSE dir
             /\ io_failed' = [io_failed EXCEPT ![f] = @ \/ ~ok]
    /\ page_response' =
           [page_response EXCEPT ![f] = Some(SuccessResponse(f, buffer[f]))]
    /\ pc' = [pc EXCEPT ![f] = "done"]
    /\ UNCHANGED <<answered, env_max_size, tmp_dir, inodes, target_url, backend, rd,
                   status_code, data, file, file_path, text, buffer, reader,
                   received, nitems, created, io_faults, chunk_sizes>>
    /\ UNCHANGED <<bus_vars, chrome_vars, openai_vars>>

(* ---------------------------- control bus ----------------------------- *)

\* Control calls made in one run.
MaxCalls == 3

\* Tasks that call pause, resume, shutdown and reset.
Tasks == {1, 2}

\* Crawl loops that subscribe to the bus.
Loops == {1, 2}

Targets == {"siteA", "siteB"}

Ops == {"pause", "resume", "shutdown", "reset"}

\* tokio::sync::watch::channel(("handles".to_string(), Handler::Start))
InitialSignal == <<"handles", "Start">>

\* The value each function hands to send.
pause(target) == <<target, "Pause">>

\* A resume that publishes the signal of pause.
resume_AsPause(target) == <<target, "Pause">>

resume(target) == <<target, "Resume">>

shutdown(target) == <<target, "Shutdown">>

reset(target) == <<target, "Start">>

Published(c) ==
    CASE c.op = "pause"    -> pause(c.target)
      [] c.op = "resume"   -> resume(c.target)
      [] c.op = "shutdown" -> shutdown(c.target)
      [] c.op = "reset"    -> reset(c.target)

\* A send that is dropped when no crawl loop holds a Receiver.
WatchSend_NeedsSubscriber(value, rx, new) == IF rx <= 1 THEN value ELSE new

\* watch::Sender::send: the value is replaced unless no Receiver is alive,
\* in which case send returns an error and the old value stays.
WatchSend(value, rx, new) == IF rx = 0 THEN value ELSE new

\* A task calls one of the four functions and waits for the write lock.
BeginCall(t) ==
    /\ call[t] = None
    /\ ncalls < MaxCalls
    /\ \E op \in Ops, target \in Targets :
         call' = [call EXCEPT ![t] = Some([op |-> op, target |-> target])]
    /\ ncalls' = ncalls + 1
    /\ UNCHANGED <<bus, receivers, subscribed, seen, last_call, last_for>>
    /\ UNCHANGED <<fetch_vars, chrome_vars, openai_vars>>

\* CONTROLLER.write().await.0.send(..): the lock is taken, the value sent
\* and the lock dropped without another await; the result is discarded.
RunSend(t) ==
    /\ call[t] # None
    /\ LET c == Unwrap(call[t])
       IN  /\ bus' = WatchSend(bus, receivers, Published(c))
           /\ last_call' = Some(c)
           /\ last_for' = [last_for EXCEPT ![c.target] = Some(c.op)]
    /\ call' = [call EXCEPT ![t] = None]
    /\ UNCHANGED <<receivers, subscribed, seen, ncalls>>
    /\ UNCHANGED <<fetch_vars, chrome_vars, openai_vars>>

\* A crawl loop clones the Receiver that CONTROLLER keeps.
Subscribe(l) ==
    /\ ~subscribed[l]
    /\ subscribed' = [subscribed EXCEPT ![l] = TRUE]
    /\ receivers' = receivers + 1
    /\ UNCHANGED <<bus, call, seen, ncalls, last_call, last_for>>
    /\ UNCHANGED <<fetch_vars, chrome_vars, openai_vars>>

\* A crawl loop reads the latest value.
ReadBus(l) ==
    /\ subscribed[l]
    /\ seen' = [seen EXCEPT ![l] = Some(bus)]
    /\ UNCHANGED <<bus, receivers, call, subscribed, ncalls, last_call, last_for>>
    /\ UNCHANGED <<fetch_vars, chrome_vars, openai_vars>>

\* A crawl loop ends and drops its Receiver.
Unsubscribe(l) ==
    /\ subscribed[l]
    /\ subscribed' = [subscribed EXCEPT ![l] = FALSE]
    /\ receivers' = receivers - 1
    /\ seen' = [seen EXCEPT ![l] = None]
    /\ UNCHANGED <<bus, call, ncalls, last_call, last_for>>
    /\ UNCHANGED <<fetch_vars, chrome_vars, openai_vars>>

(* ------------------------ browser-driven fetch ------------------------ *)

\* The fetch that carries the HTTP fallback of a browser-driven fetch.
FallbackFetch == 1

\* Static HTML handed to set_content: not a URL.
Html == <<"<", "p", ">", "h", "i", "<", "/", "p", ">">>

Letters ==
    {"a", "b", "c", "d", "e", "f", "g", "h", "i", "j", "k", "l", "m", "n", "o",
     "p", "q", "r", "s", "t", "u", "v", "w", "x", "y", "z"}

\* url::Url::parse(source).is_ok(): with no base URL the input must open
\* with a scheme, a letter then letters or digits, followed by ":".
UrlParses(s) ==
    \E i \in 2..Len(s) :
        /\ s[i] = ":"
        /\ s[1] \in Letters
        /\ \A k \in 1..(i - 1) : s[k] \in AlphaNumeric

\* A body the browser gives, known by the bytes it starts and ends with.
\* Heads: "CF_HEAD", "style_global" (the head marker of the firewall test,
\* which CF_HEAD extends) or "plain".  Tails: "CF_END", "CF_END2",
\* "CF_MOCK_FRAME", "script_mock_frame" (the tail of the firewall test, which
\* ends with CF_MOCK_FRAME) or "plain".
Body(head, tail) ==
    <<[src |-> "page", idx |-> 1, off |-> 0, len |-> 300,
       head |-> head, tail |-> tail]>>

\* Bodies page.content_bytes() may capture.
BrowserBodies ==
    {<<>>,
     Body("plain", "plain"),
     Body("plain", "CF_END"),
     Body("CF_HEAD", "plain"),
     Body("CF_HEAD", "script_mock_frame"),
     Body("style_global", "script_mock_frame")}

\* Bodies page.content_bytes() may capture anew inside cf_handle.
RecapturedBodies ==
    {<<>>, Body("plain", "plain"), Body("CF_HEAD", "script_mock_frame")}

\* b.starts_with(marker)
starts_with(b, marker) ==
    /\ b # <<>>
    /\ IF marker = "style_global"
       THEN Head(b).head \in {"style_global", "CF_HEAD"}
       ELSE Head(b).head = marker

\* b.ends_with(marker)
ends_with(b, marker) ==
    /\ b # <<>>
    /\ IF marker = "CF_MOCK_FRAME"
       THEN b[Len(b)].tail \in {"CF_MOCK_FRAME", "script_mock_frame"}
       ELSE b[Len(b)].tail = marker

\* A test that takes the head marker alone for a challenge.
IsChallenge_HeadAlone(b) ==
    \/ ends_with(b, "CF_END")
    \/ ends_with(b, "CF_END2")
    \/ starts_with(b, "CF_HEAD")

\* A test that knows the head and frame markers only, not the trailers.
IsChallenge_NoTrailer(b) ==
    starts_with(b, "CF_HEAD") /\ ends_with(b, "CF_MOCK_FRAME")

\* b.ends_with(cf) || b.ends_with(cf2) || b.starts_with(cn) && b.ends_with(cnf)
IsChallenge(b) ==
    \/ ends_with(b, "CF_END")
    \/ ends_with(b, "CF_END2")
    \/ starts_with(b, "CF_HEAD") /\ ends_with(b, "CF_MOCK_FRAME")

FORBIDDEN == 403

\* A status forced on the metadata flag alone.
WafStatus_FlagAlone(req_res, res) ==
    IF req_res.waf_check THEN FORBIDDEN ELSE req_res.status_code

\* if chrome_http_req_res.waf_check && res.starts_with(..) && res.ends_with(..)
\*     { chrome_http_req_res.status_code = StatusCode::FORBIDDEN; }
WafStatus(req_res, res) ==
    IF /\ req_res.waf_check
       /\ starts_with(res, "style_global")
       /\ ends_with(res, "script_mock_frame")
    THEN FORBIDDEN
    ELSE req_res.status_code

\* What perform_chrome_http_request may return: the status recorded, and
\* whether the response came from a challenge of the firewall.
NavigationResults == [waf_check : BOOLEAN, status_code : {200, 404}]

\* ChromeHTTPReqRes::default()
ChromeHTTPReqResDefault == [waf_check |-> FALSE, status_code |-> DefaultStatus]

\* What page.wait_for_navigation_response() may give: no request, or a
\* request with its redirect chain, each entry with or without a URL.
NavigationResponses(source) ==
    {None, Some(<<>>), Some(<<None>>), Some(<<Some(source)>>),
     Some(<<Some(source), Some(IF source = UrlY THEN UrlX ELSE UrlY)>>)}

\* get_last_redirect(target_url, u)
get_last_redirect(url, u) ==
    IF ~IsSome(u) THEN None
    ELSE LET chain == Unwrap(u)
         IN  IF chain = <<>> THEN None
             ELSE IF ~IsSome(chain[Len(chain)]) THEN None
             ELSE IF url # Unwrap(chain[Len(chain)])
                  THEN Some(Unwrap(chain[Len(chain)]))
                  ELSE None

\* fetch_page_html_chrome_base returns at `?`.
ReturnErr ==
    /\ c_result' = Some([ok |-> FALSE, page |-> None])
    /\ c_pc' = "returned"

Did(step) == c_trace' = Append(c_trace, step)

\* An order that writes the cache and takes the screenshot before the AI.
StepAfter_CacheFirst(step) ==
    CASE step = "respond"    -> "cache"
      [] step = "cache"      -> "screenshot"
      [] step = "screenshot" -> "openai"
      [] step = "openai"     -> "close"

\* The order of the steps that follow the PageResponse being built:
\* run_openai_request, perform_screenshot, put_hybrid_cache, close.
StepAfter(step) ==
    CASE step = "respond"    -> "openai"
      [] step = "openai"     -> "screenshot"
      [] step = "screenshot" -> "cache"
      [] step = "cache"      -> "close"

\* if !page_set { if content { page.set_content(source).await? }
\*                else { perform_chrome_http_request(&page, source).await? } }
ChromeStart ==
    /\ c_pc = "start"
    /\ LET a == Unwrap(c_args)
       IN  IF a.page_set
           THEN /\ c_pc' = "wait_navigation"
                /\ UNCHANGED <<c_trace, c_req_res, c_result>>
           ELSE IF a.content
           THEN \E ok \in BOOLEAN :
                    /\ Did("set_content")
                    /\ IF ok
                       THEN c_pc' = "wait_navigation" /\ UNCHANGED c_result
                       ELSE ReturnErr
                    /\ UNCHANGED c_req_res
           ELSE \E r \in {None} \cup {Some(n) : n \in NavigationResults} :
                    /\ Did("navigate")
                    /\ IF IsSome(r)
                       THEN /\ c_req_res' = Unwrap(r)
                            /\ c_pc' = "wait_navigation"
                            /\ UNCHANGED c_result
                       ELSE /\ ReturnErr
                            /\ UNCHANGED c_req_res
    /\ UNCHANGED <<c_call, c_next_content, c_final_url, c_res, c_page_response, c_response,
                   c_navigation, c_cache, wait_vars>>
    /\ UNCHANGED <<fetch_vars, bus_vars, nav_vars, openai_vars>>

\* let final_url = if wait_for_navigation && !content { .. } else { None };
ChromeWaitNavigation ==
    /\ c_pc = "wait_navigation"
    /\ LET a == Unwrap(c_args)
       IN  IF a.wait_for_navigation /\ ~a.content
           THEN /\ Did("wait_for_navigation")
                /\ \E r \in {"Err"} \cup {"Ok"} \X NavigationResponses(a.source) :
                     /\ c_final_url' = IF r = "Err" THEN None
                                       ELSE get_last_redirect(a.source, r[2])
                     /\ c_navigation' = IF r = "Err" THEN None ELSE r[2]
           ELSE /\ c_final_url' = None
                /\ UNCHANGED <<c_trace, c_navigation>>
    /\ c_pc' = "page_wait"
    /\ UNCHANGED <<c_call, c_next_content, c_req_res, c_res, c_page_response, c_result,
                   c_response, c_cache, wait_vars>>
    /\ UNCHANGED <<fetch_vars, bus_vars, nav_vars, openai_vars>>

\* page_wait(&page, &wait_for).await
ChromePageWait ==
    /\ c_pc = "page_wait"
    /\ Did("page_wait")
    /\ c_pc' = "content_bytes"
    /\ UNCHANGED <<c_call, c_next_content, c_req_res, c_final_url, c_res, c_page_response,
                   c_result, c_response, c_navigation, c_cache, wait_vars>>
    /\ UNCHANGED <<fetch_vars, bus_vars, nav_vars, openai_vars>>

\* let mut res: bytes::Bytes = page.content_bytes().await?;
ChromeContentBytes ==
    /\ c_pc = "content_bytes"
    /\ Did("content_bytes")
    /\ \E r \in {None} \cup {Some(b) : b \in BrowserBodies} :
           IF IsSome(r)
           THEN /\ c_res' = Unwrap(r)
                /\ c_pc' = "cf_handle"
                /\ UNCHANGED c_result
           ELSE /\ ReturnErr
                /\ UNCHANGED c_res
    /\ UNCHANGED <<c_call, c_next_content, c_req_res, c_final_url, c_page_response,
                   c_response, c_navigation, c_cache, wait_vars>>
    /\ UNCHANGED <<fetch_vars, bus_vars, nav_vars, openai_vars>>

\* if cfg!(feature = "real_browser") { let _ = cf_handle(&mut res, &page).await; }
\* and the test cf_handle opens with.
ChromeCfHandle ==
    /\ c_pc = "cf_handle"
    /\ IF c_features.real_browser
       THEN /\ Did("cf_handle")
            /\ c_pc' = IF IsChallenge(c_res) THEN "cf_wait_1" ELSE "respond"
       ELSE /\ c_pc' = "respond"
            /\ UNCHANGED c_trace
    /\ UNCHANGED <<c_call, c_next_content, c_req_res, c_final_url, c_res, c_page_response,
                   c_result, c_response, c_navigation, c_cache, wait_vars>>
    /\ UNCHANGED <<fetch_vars, bus_vars, nav_vars, openai_vars>>

\* wait_for.delay = 1 s, wait_for.idle_network = 8 s; page_wait(..).await
ChromeCfWait1 ==
    /\ c_pc = "cf_wait_1"
    /\ Did("cf_page_wait_1")
    /\ c_pc' = "cf_evaluate"
    /\ UNCHANGED <<c_call, c_next_content, c_req_res, c_final_url, c_res, c_page_response,
                   c_result, c_response, c_navigation, c_cache, wait_vars>>
    /\ UNCHANGED <<fetch_vars, bus_vars, nav_vars, openai_vars>>

\* let _ = page.evaluate(r#"document.querySelectorAll("iframe")..."#).await;
ChromeCfEvaluate ==
    /\ c_pc = "cf_evaluate"
    /\ \E step \in {"cf_evaluate", "cf_evaluate_failed"} : Did(step)
    /\ c_pc' = "cf_wait_2"
    /\ UNCHANGED <<c_call, c_next_content, c_req_res, c_final_url, c_res, c_page_response,
                   c_result, c_response, c_navigation, c_cache, wait_vars>>
    /\ UNCHANGED <<fetch_vars, bus_vars, nav_vars, openai_vars>>

\* wait_for.page_navigations = true; page_wait(..).await
ChromeCfWait2 ==
    /\ c_pc = "cf_wait_2"
    /\ Did("cf_page_wait_2")
    /\ c_pc' = "cf_content_bytes_1"
    /\ UNCHANGED <<c_call, c_next_content, c_req_res, c_final_url, c_res, c_page_response,
                   c_result, c_response, c_navigation, c_cache, wait_vars>>
    /\ UNCHANGED <<fetch_vars, bus_vars, nav_vars, openai_vars>>

\* let next_content = page.content_bytes().await?; a body that is still a
\* challenge is waited on once more, any other becomes *b.
ChromeCfContentBytes1 ==
    /\ c_pc = "cf_content_bytes_1"
    /\ Did("cf_content_bytes_1")
    /\ \E r \in {None} \cup {Some(b) : b \in RecapturedBodies} :
           /\ c_next_content' = r
           /\ IF IsSome(r) /\ ~IsChallenge(Unwrap(r))
              THEN c_res' = Unwrap(r) /\ c_pc' = "respond"
              ELSE /\ c_pc' = IF IsSome(r) THEN "cf_wait_3" ELSE "respond"
                   /\ UNCHANGED c_res
    /\ UNCHANGED <<c_call, c_req_res, c_final_url, c_page_response, c_result,
                   c_response, c_navigation, c_cache, wait_vars>>
    /\ UNCHANGED <<fetch_vars, bus_vars, nav_vars, openai_vars>>

\* wait_for.delay = 4 s; page_wait(..).await
ChromeCfWait3 ==
    /\ c_pc = "cf_wait_3"
    /\ Did("cf_page_wait_3")
    /\ c_pc' = "cf_content_bytes_2"
    /\ UNCHANGED <<c_call, c_next_content, c_req_res, c_final_url, c_res, c_page_response,
                   c_result, c_response, c_navigation, c_cache, wait_vars>>
    /\ UNCHANGED <<fetch_vars, bus_vars, nav_vars, openai_vars>>

\* A ladder that waits and captures again for as long as the body is a
\* challenge.
ChromeCfContentBytes2_Retries ==
    /\ c_pc = "cf_content_bytes_2"
    /\ Did("cf_content_bytes_2")
    /\ \E r \in {None} \cup {Some(b) : b \in RecapturedBodies} :
           /\ c_next_content' = IF IsSome(r) THEN r ELSE c_next_content
           /\ c_res' = IF IsSome(r) THEN Unwrap(r) ELSE c_res
           /\ c_pc' = IF IsSome(r) /\ IsChallenge(Unwrap(r))
                      THEN "cf_wait_3" ELSE "respond"
    /\ UNCHANGED <<c_call, c_req_res, c_final_url, c_page_response, c_result,
                   c_response, c_navigation, c_cache, wait_vars>>
    /\ UNCHANGED <<fetch_vars, bus_vars, nav_vars, openai_vars>>

\* page.content_bytes().await? a second time, and *b = next_content.
ChromeCfContentBytes2 ==
    /\ c_pc = "cf_content_bytes_2"
    /\ Did("cf_content_bytes_2")
    /\ \E r \in {None} \cup {Some(b) : b \in RecapturedBodies} :
           /\ c_next_content' = IF IsSome(r) THEN r ELSE c_next_content
           /\ c_res' = IF IsSome(r) THEN Unwrap(r) ELSE c_res
    /\ c_pc' = "respond"
    /\ UNCHANGED <<c_call, c_req_res, c_final_url, c_page_response, c_result,
                   c_response, c_navigation, c_cache, wait_vars>>
    /\ UNCHANGED <<fetch_vars, bus_vars, nav_vars, openai_vars>>

\* let ok = res.len() > 0; the status of a firewall page; the PageResponse.
ChromeRespond ==
    /\ c_pc = "respond"
    /\ c_req_res' = [c_req_res EXCEPT !.status_code = WafStatus(c_req_res, c_res)]
    /\ c_page_response' =
           Some([DefaultPageResponse EXCEPT
                   !.content = IF BytesLen(c_res) > 0 THEN Some(c_res) ELSE None,
                   !.status_code = c_req_res'.status_code,
                   !.final_url = c_final_url])
    /\ c_pc' = StepAfter("respond")
    /\ UNCHANGED <<c_call, c_next_content, c_trace, c_final_url, c_res, c_result, c_response,
                   c_navigation, c_cache, wait_vars>>
    /\ UNCHANGED <<fetch_vars, bus_vars, nav_vars, openai_vars>>

\* What one run of run_openai_request may leave in the PageResponse under
\* the openai feature with a configuration: the usage is recorded, the
\* content is replaced when a script ran on a captured body, and the
\* extra data is attached when the configuration asks for it.
AiResults(page, ok) ==
    {[page EXCEPT !.content = c,
                  !.openai_credits_used = Some(<<"usage">>),
                  !.extra_ai_data = x] :
        c \in {page.content}
                 \cup (IF ok THEN {Some(Body("ai_html", "plain"))} ELSE {}),
        x \in {None, Some(<<"ai_results">>)}}

\* run_openai_request(.., &mut page_response, ok).await: an empty function
\* without the openai feature, and without effect without a configuration.
ChromeOpenAI ==
    /\ c_pc = "openai"
    /\ IF c_features.openai /\ Unwrap(c_args).openai_config
       THEN /\ Did("run_openai_request")
            /\ \E p \in AiResults(Unwrap(c_page_response), BytesLen(c_res) > 0) :
                   c_page_response' = Some(p)
       ELSE UNCHANGED <<c_trace, c_page_response>>
    /\ c_pc' = StepAfter("openai")
    /\ UNCHANGED <<c_call, c_next_content, c_req_res, c_final_url, c_res, c_result,
                   c_response, c_navigation, c_cache, wait_vars>>
    /\ UNCHANGED <<fetch_vars, bus_vars, nav_vars, openai_vars>>

\* A screenshot step that hands the bytes over whatever the configuration.
perform_screenshot_AlwaysBytes(screenshot, page, captured) ==
    IF captured THEN [page EXCEPT !.screenshot_bytes = Some("png")] ELSE page

\* perform_screenshot: page.save_screenshot or page.screenshot, as the
\* configuration says, or page.save_screenshot in the directory of the
\* environment without one; an Err is logged, and the bytes of an Ok are
\* kept only if ss.bytes.
perform_screenshot(screenshot, page, captured) ==
    IF IsSome(screenshot) /\ captured /\ Unwrap(screenshot).bytes
    THEN [page EXCEPT !.screenshot_bytes = Some("png")]
    ELSE page

\* if cfg!(feature = "chrome_screenshot") || screenshot.is_some()
\*     { perform_screenshot(source, page, screenshot, &mut page_response).await; }
ChromeScreenshot ==
    /\ c_pc = "screenshot"
    /\ IF c_features.chrome_screenshot \/ IsSome(Unwrap(c_args).screenshot)
       THEN \E captured \in BOOLEAN :
              /\ Did(IF captured THEN "perform_screenshot"
                     ELSE "perform_screenshot_failed")
              /\ c_page_response' =
                     Some(perform_screenshot(Unwrap(c_args).screenshot,
                                             Unwrap(c_page_response), captured))
       ELSE UNCHANGED <<c_trace, c_page_response>>
    /\ c_pc' = StepAfter("screenshot")
    /\ UNCHANGED <<c_call, c_next_content, c_req_res, c_final_url, c_res, c_result,
                   c_response, c_navigation, c_cache, wait_vars>>
    /\ UNCHANGED <<fetch_vars, bus_vars, nav_vars, openai_vars>>

\* A cache writer that hands a failed write to its caller.
put_hybrid_cache_Propagates(written) == IF written THEN "unit" ELSE "err"

\* put_hybrid_cache: match url.parse::<Uri>() { Ok(u) => { ..
\* let _ = CACACHE_MANAGER.put(..).await; } _ => () }; the function returns
\* nothing whether or not the entry was written.
put_hybrid_cache(written) == "unit"

\* if !page_set && cfg!(feature = "cache_chrome_hybrid") {
\*     match url::Url::parse(source) { Ok(u) => .. put_hybrid_cache(..).await
CacheEligible(page_set, content, source) == ~page_set /\ UrlParses(source)

ChromeCache ==
    /\ c_pc = "cache"
    /\ LET a == Unwrap(c_args)
       IN  IF /\ c_features.cache_chrome_hybrid
              /\ CacheEligible(a.page_set, a.content, a.source)
           THEN /\ Did("put_hybrid_cache")
                /\ \E written \in BOOLEAN :
                     /\ c_cache' = IF written THEN "written" ELSE "failed"
                     /\ IF put_hybrid_cache(written) = "err"
                        THEN ReturnErr
                        ELSE c_pc' = StepAfter("cache") /\ UNCHANGED c_result
           ELSE /\ c_pc' = StepAfter("cache")
                /\ UNCHANGED <<c_trace, c_cache, c_result>>
    /\ UNCHANGED <<c_call, c_next_content, c_req_res, c_final_url, c_res, c_page_response,
                   c_response, c_navigation, wait_vars>>
    /\ UNCHANGED <<fetch_vars, bus_vars, nav_vars, openai_vars>>

\* if cfg!(not(feature = "chrome_store_page")) { page.execute(CloseParams).await?; }
\* Ok(page_response)
ChromeClose ==
    /\ c_pc = "close"
    /\ IF c_features.chrome_store_page
       THEN /\ c_result' = Some([ok |-> TRUE, page |-> c_page_response])
            /\ c_pc' = "returned"
            /\ UNCHANGED c_trace
       ELSE /\ Did("close")
            /\ \E ok \in BOOLEAN :
                   IF ok
                   THEN /\ c_result' = Some([ok |-> TRUE, page |-> c_page_response])
                        /\ c_pc' = "returned"
                   ELSE ReturnErr
    /\ UNCHANGED <<c_call, c_next_content, c_req_res, c_final_url, c_res, c_page_response,
                   c_response, c_navigation, c_cache, wait_vars>>
    /\ UNCHANGED <<fetch_vars, bus_vars, nav_vars, openai_vars>>

Wrappers == {"fetch_page_html", "fetch_page_html_chrome"}

\* A wrapper that hands the browser's result on as it is.
FallsBack_Never(result) == FALSE

\* The match on the result of fetch_page_html_chrome_base: Ok(page) => page,
\* anything else goes to the HTTP request.
FallsBack(result) == ~result.ok

\* The HTTP code a wrapper runs on an error: fetch_page_html calls
\* fetch_page_html_raw, fetch_page_html_chrome has its own copy of the loop.
FallbackBackend(entry) ==
    IF entry = "fetch_page_html" THEN "raw" ELSE "chrome_fallback"

\* The wrapper's match: the page, or client.get(target_url) in its place.
ChromeReturned ==
    /\ c_pc = "returned"
    /\ c_entry \in Wrappers
    /\ IF FallsBack(Unwrap(c_result))
       THEN /\ c_pc' = "fallback"
            /\ target_url' = [target_url EXCEPT
                                ![FallbackFetch] = Unwrap(c_args).source]
            /\ backend' = [backend EXCEPT
                             ![FallbackFetch] = FallbackBackend(c_entry)]
            /\ pc' = [pc EXCEPT ![FallbackFetch] = "send"]
            /\ UNCHANGED c_response
       ELSE /\ c_pc' = "done"
            /\ c_response' = Unwrap(c_result).page
            /\ UNCHANGED <<target_url, backend, pc>>
    /\ UNCHANGED <<c_call, c_next_content, c_trace, c_req_res, c_final_url, c_res,
                   c_page_response, c_result, c_navigation, c_cache, wait_vars>>
    /\ UNCHANGED <<answered, env_max_size, tmp_dir, dir, inodes, rd,
                   status_code, data, file, file_path, text, buffer,
                   page_response, reader, received, nitems, created, io_failed,
                   io_faults, chunk_sizes>>
    /\ UNCHANGED <<bus_vars, nav_vars, openai_vars>>

\* The HTTP request has produced its PageResponse: the wrapper returns it.
ChromeFallbackDone ==
    /\ c_pc = "fallback"
    /\ pc[FallbackFetch] = "done"
    /\ c_response' = page_response[FallbackFetch]
    /\ c_pc' = "done"
    /\ UNCHANGED <<c_call, c_next_content, c_trace, c_req_res, c_final_url, c_res,
                   c_page_response, c_result, c_navigation, c_cache, wait_vars>>
    /\ UNCHANGED <<fetch_vars, bus_vars, nav_vars, openai_vars>>

(* --------------------------- wait-for engine -------------------------- *)

\* A sub-spec of WaitFor: absent, present without a timeout, or present
\* with one.
SubSpecs == {None, Some([timeout |-> None]), Some([timeout |-> Some("t")])}

\* Option<WaitFor>
WaitFors ==
    {None} \cup {Some(wf) : wf \in [idle_network : SubSpecs,
                                    selector : SubSpecs,
                                    delay : SubSpecs]}

\* match wait_for.delay { Some(d) => match d.timeout { Some(t) => sleep(t) .. } }
EnterDelay(wf) ==
    IF IsSome(wf.delay) /\ IsSome(Unwrap(wf.delay).timeout)
    THEN "delay" ELSE "returned"

\* A page_wait that leaves the selector out.
EnterSelector_Skipped(wf) == EnterDelay(wf)

\* match wait_for.selector { Some(s) => wait_for_selector(..).await, _ => () }
EnterSelector(wf) ==
    IF IsSome(wf.selector) THEN "selector_loop" ELSE EnterDelay(wf)

\* match wait_for.idle_network { Some(n) => wait_for_event(..).await, _ => () }
EnterIdleNetwork(wf) ==
    IF IsSome(wf.idle_network) THEN "listen" ELSE EnterSelector(wf)

\* The sub-wait a step of page_wait belongs to.
StageOf(p) ==
    CASE p \in {"listen", "event_loop"} -> "idle_network"
      [] p = "selector_loop"            -> "selector"
      [] p = "delay"                    -> "delay"
      [] OTHER                          -> "none"

\* page_wait moves on to p: a sub-wait that starts is recorded.
WaitGoto(p) ==
    /\ w_pc' = p
    /\ w_trace' = IF StageOf(p) \notin {"none", StageOf(w_pc)}
                  THEN Append(w_trace, StageOf(p)) ELSE w_trace
    /\ w_turn' = 0

\* The loop page_wait is in takes another turn.
WaitAgain ==
    /\ w_turn' = 1 - w_turn
    /\ UNCHANGED <<w_pc, w_trace>>

\* page_wait(page, wait_for): match wait_for { Some(wait_for) => .., _ => () }
PageWaitCall ==
    /\ w_pc = "start"
    /\ WaitGoto(IF IsSome(w_wait_for)
                THEN EnterIdleNetwork(Unwrap(w_wait_for)) ELSE "returned")
    /\ UNCHANGED <<w_wait_for, w_events, w_present, w_lookup>>
    /\ UNCHANGED <<fetch_vars, bus_vars, browser_vars, nav_vars, openai_vars>>

\* wait_for_event: match page.event_listener::<T>().await { Ok(events) => .., _ => () }
EventListen ==
    /\ w_pc = "listen"
    /\ \E ok \in BOOLEAN :
           WaitGoto(IF ok THEN "event_loop" ELSE EnterSelector(Unwrap(w_wait_for)))
    /\ UNCHANGED <<w_wait_for, w_events, w_present, w_lookup>>
    /\ UNCHANGED <<fetch_vars, bus_vars, browser_vars, nav_vars, openai_vars>>

\* v = events.next() => if !v.is_none() { break; } with an event.
EventReceived ==
    /\ w_pc = "event_loop"
    /\ w_events = "open"
    /\ WaitGoto(EnterSelector(Unwrap(w_wait_for)))
    /\ UNCHANGED <<w_wait_for, w_events, w_present, w_lookup>>
    /\ UNCHANGED <<fetch_vars, bus_vars, browser_vars, nav_vars, openai_vars>>

\* _ = &mut sleep => break: 500 ms pass while the task waits for an event.
EventSleepElapsed ==
    /\ w_pc = "event_loop"
    /\ w_events = "open"
    /\ WaitGoto(EnterSelector(Unwrap(w_wait_for)))
    /\ UNCHANGED <<w_wait_for, w_events, w_present, w_lookup>>
    /\ UNCHANGED <<fetch_vars, bus_vars, browser_vars, nav_vars, openai_vars>>

\* A timeout Some(t) wraps the loop in tokio::time::timeout, which can end
\* it only when the loop has yielded.
TimeoutArmed(sub) == IsSome(Unwrap(sub).timeout)

\* tokio::time::timeout(timeout, wait_until) elapses while the task waits.
EventTimeoutElapsed ==
    /\ w_pc = "event_loop"
    /\ w_events = "open"
    /\ TimeoutArmed(Unwrap(w_wait_for).idle_network)
    /\ WaitGoto(EnterSelector(Unwrap(w_wait_for)))
    /\ UNCHANGED <<w_wait_for, w_events, w_present, w_lookup>>
    /\ UNCHANGED <<fetch_vars, bus_vars, browser_vars, nav_vars, openai_vars>>

\* The event stream page_wait listens to ends: the handler that feeds it
\* is gone (the browser closed, the connection was lost).
EventStreamEnds ==
    /\ w_pc = "event_loop"
    /\ w_events = "open"
    /\ w_events' = "ended"
    /\ UNCHANGED <<w_pc, w_wait_for, w_present, w_lookup, w_turn, w_trace>>
    /\ UNCHANGED <<fetch_vars, bus_vars, browser_vars, nav_vars, openai_vars>>

\* v = events.next() with v = None: no break; the loop arms a new 500 ms
\* sleep and polls the ended stream again, without ever yielding.
EventEndOfStream ==
    /\ w_pc = "event_loop"
    /\ w_events = "ended"
    /\ WaitAgain
    /\ UNCHANGED <<w_wait_for, w_events, w_present, w_lookup>>
    /\ UNCHANGED <<fetch_vars, bus_vars, browser_vars, nav_vars, openai_vars>>

\* wait_for_selector: Ok(_) = page.find_element(selector) => break.  The
\* lookup completes inside one 50 ms turn only when it is fast.
SelectorFound ==
    /\ w_pc = "selector_loop"
    /\ w_present
    /\ w_lookup = "fast"
    /\ WaitGoto(EnterDelay(Unwrap(w_wait_for)))
    /\ UNCHANGED <<w_wait_for, w_events, w_present, w_lookup>>
    /\ UNCHANGED <<fetch_vars, bus_vars, browser_vars, nav_vars, openai_vars>>

\* A selector wait that gives up when its first 50 ms have passed.
SelectorSleepElapsed_GivesUp ==
    /\ w_pc = "selector_loop"
    /\ WaitGoto(EnterDelay(Unwrap(w_wait_for)))
    /\ UNCHANGED <<w_wait_for, w_events, w_present, w_lookup>>
    /\ UNCHANGED <<fetch_vars, bus_vars, browser_vars, nav_vars, openai_vars>>

\* _ = &mut sleep => (): 50 ms pass; the lookup in progress is dropped and
\* the next turn starts a new one.  A lookup that answered Err is awaited
\* no further, so the sleep ends the turn as well.
SelectorSleepElapsed ==
    /\ w_pc = "selector_loop"
    /\ WaitAgain
    /\ UNCHANGED <<w_wait_for, w_events, w_present, w_lookup>>
    /\ UNCHANGED <<fetch_vars, bus_vars, browser_vars, nav_vars, openai_vars>>

\* tokio::time::timeout(timeout, wait_until) elapses; the loop yields at
\* each turn.
SelectorTimeoutElapsed ==
    /\ w_pc = "selector_loop"
    /\ TimeoutArmed(Unwrap(w_wait_for).selector)
    /\ WaitGoto(EnterDelay(Unwrap(w_wait_for)))
    /\ UNCHANGED <<w_wait_for, w_events, w_present, w_lookup>>
    /\ UNCHANGED <<fetch_vars, bus_vars, browser_vars, nav_vars, openai_vars>>

\* The page comes to hold an element the selector matches.
ElementAppears ==
    /\ w_pc = "selector_loop"
    /\ ~w_present
    /\ w_present' = TRUE
    /\ UNCHANGED <<w_pc, w_wait_for, w_events, w_lookup, w_turn, w_trace>>
    /\ UNCHANGED <<fetch_vars, bus_vars, browser_vars, nav_vars, openai_vars>>

\* tokio::time::sleep(timeout).await of the delay ends.
DelayElapsed ==
    /\ w_pc = "delay"
    /\ WaitGoto("returned")
    /\ UNCHANGED <<w_wait_for, w_events, w_present, w_lookup>>
    /\ UNCHANGED <<fetch_vars, bus_vars, browser_vars, nav_vars, openai_vars>>

\* The steps page_wait takes by itself or that time brings about.
WaitProgress ==
    \/ PageWaitCall
    \/ EventListen
    \/ EventReceived
    \/ EventSleepElapsed
    \/ EventTimeoutElapsed
    \/ EventEndOfStream
    \/ SelectorFound
    \/ SelectorSleepElapsed
    \/ SelectorTimeoutElapsed
    \/ DelayElapsed

(* --------------------------- AI augmentation -------------------------- *)

\* The prompts a configuration carries.
Prompts == {"click", "scroll"}

\* The most prompts one configuration carries.
MaxPrompts == 2

RECURSIVE SeqsUpTo(_, _)
SeqsUpTo(S, n) ==
    IF n = 0 THEN {<<>>}
    ELSE LET shorter == SeqsUpTo(S, n - 1)
         IN  shorter \cup {Append(q, x) : q \in shorter, x \in S}

\* Prompt::next of configuration.rs: the next prompt not yet taken, in the
\* order the configuration lists them, None when all were taken.
Prompt_next(prompts) ==
    IF prompts = <<>> THEN None ELSE Some(Head(prompts))

\* What is left of the prompts after Prompt::next.
Prompt_rest(prompts) ==
    IF prompts = <<>> THEN <<>> ELSE Tail(prompts)

\* The text of an AI answer: a script as it is, or a JSON object whose js
\* field holds the script.  Every script of the model is at most 400 bytes.
Scripts == {"", "click()", "window.location"}

Texts == [json : BOOLEAN, script : Scripts]

EmptyText == [json |-> FALSE, script |-> ""]

is_empty(t) == t = EmptyText

\* js.len() <= 400 && js.contains("window.location")
MovesLocation(t) == t.script = "window.location"

\* OpenAIUsage, by its total_tokens; the default is 0.
Usages == {0, 1}

OpenAIReturnDefault == [response |-> EmptyText, usage |-> 0, error |-> None]

\* What openai_request gives for one prompt: an answer with its usage (an
\* LLM error or a request that could not be built gives the empty answer and
\* no error), or the default with the error of the message build or of the
\* semaphore.
OpenAIReturns ==
    [response : Texts, usage : Usages, error : {None}]
        \cup {[OpenAIReturnDefault EXCEPT !.error = Some("error")]}

JsonResponseDefault == [js |-> EmptyText, error |-> None]

\* serde_json::from_str::<JsonResponse>
handle_ai_data(t) ==
    IF t.json
    THEN Some([js |-> [json |-> FALSE, script |-> t.script], error |-> None])
    ELSE None

handle_openai_credits_Overwrite(page, tokens_used) ==
    [page EXCEPT !.openai_credits_used = Some(<<tokens_used>>)]

handle_openai_credits_SkipDefault(page, tokens_used) ==
    IF tokens_used = 0 THEN page
    ELSE [page EXCEPT !.openai_credits_used =
              IF IsSome(@) THEN Some(Append(Unwrap(@), tokens_used))
              ELSE Some(<<tokens_used>>)]

handle_openai_credits(page, tokens_used) ==
    [page EXCEPT !.openai_credits_used =
        IF IsSome(@) THEN Some(Append(Unwrap(@), tokens_used))
        ELSE Some(<<tokens_used>>)]

handle_extra_ai_data(page, prompt, x, screenshot_output, error) ==
    LET ai_response == [input |-> prompt, js_output |-> x.js,
                        screenshot_output |-> screenshot_output,
                        error |-> error]
    IN  [page EXCEPT !.extra_ai_data =
            IF IsSome(@) THEN Some(Append(Unwrap(@), ai_response))
            ELSE Some(<<ai_response>>)]

\* The GPTConfigs the loop runs with: the one prompt_url_map holds for the
\* source (or its path), None if the map has none, and openai_config itself
\* without a map.
ResolvedConfigs(openai_config) ==
    IF ~IsSome(openai_config) THEN None
    ELSE IF IsSome(Unwrap(openai_config).prompt_url_map)
         THEN Unwrap(Unwrap(openai_config).prompt_url_map)
         ELSE openai_config

gpt_configs == Unwrap(ResolvedConfigs(a_openai_config))

\* run_openai_request up to the loop.
OpenAIStart ==
    /\ a_pc = "start"
    /\ IF IsSome(ResolvedConfigs(a_openai_config))
       THEN a_prompts' = gpt_configs.prompt /\ a_pc' = "loop"
       ELSE a_pc' = "returned" /\ UNCHANGED a_prompts
    /\ UNCHANGED <<a_openai_config, a_ok, a_prompt, a_json_res, a_gpt_error,
                   a_html, a_page_response, a_asked>>
    /\ UNCHANGED <<fetch_vars, bus_vars, chrome_vars, sem_vars, clean_vars>>

\* while let Some(prompt) = prompts.next()
OpenAINextPrompt ==
    /\ a_pc = "loop"
    /\ IF IsSome(Prompt_next(a_prompts))
       THEN /\ a_prompt' = Unwrap(Prompt_next(a_prompts))
            /\ a_prompts' = Prompt_rest(a_prompts)
            /\ a_pc' = "request"
       ELSE a_pc' = "returned" /\ UNCHANGED <<a_prompt, a_prompts>>
    /\ UNCHANGED <<a_openai_config, a_ok, a_json_res, a_gpt_error, a_html,
                   a_page_response, a_asked>>
    /\ UNCHANGED <<fetch_vars, bus_vars, chrome_vars, sem_vars, clean_vars>>

\* The request for one prompt, its usage record and json_res.
OpenAIRequest ==
    /\ a_pc = "request"
    /\ \E gpt_results \in
            IF ~gpt_configs.model_is_empty /\ a_ok THEN OpenAIReturns
            ELSE {OpenAIReturnDefault} :
         LET js_script == gpt_results.response
             json_res ==
                 IF gpt_configs.extra_ai_data
                 THEN IF IsSome(handle_ai_data(js_script))
                      THEN Unwrap(handle_ai_data(js_script))
                      ELSE [JsonResponseDefault EXCEPT
                                !.error = Some("serialization")]
                 ELSE [JsonResponseDefault EXCEPT !.js = js_script]
         IN  /\ a_page_response' =
                    handle_openai_credits(a_page_response, gpt_results.usage)
             /\ a_gpt_error' = gpt_results.error
             /\ a_json_res' = json_res
             /\ a_asked' = Append(a_asked, [prompt |-> a_prompt,
                                             usage |-> gpt_results.usage])
             /\ a_pc' = IF ~is_empty(json_res.js) THEN "evaluate" ELSE "attach"
    /\ UNCHANGED <<a_openai_config, a_ok, a_prompts, a_prompt, a_html>>
    /\ UNCHANGED <<fetch_vars, bus_vars, chrome_vars, sem_vars, clean_vars>>

\* page.evaluate_function with the script: the document it leaves, or None
\* when the evaluation or the conversion of its value fails.
OpenAIEvaluate ==
    /\ a_pc = "evaluate"
    /\ \E html \in {None, Some(Body("ai_html", "plain"))} :
        /\ a_html' = html
        /\ a_pc' = IF IsSome(html) THEN "page_wait" ELSE "attach"
    /\ UNCHANGED <<a_openai_config, a_ok, a_prompts, a_prompt, a_json_res,
                   a_gpt_error, a_page_response, a_asked>>
    /\ UNCHANGED <<fetch_vars, bus_vars, chrome_vars, sem_vars, clean_vars>>

\* page_wait after a successful evaluation, and the document as content
\* unless the script moved the page.
OpenAIPageWait ==
    /\ a_pc = "page_wait"
    /\ IF MovesLocation(a_json_res.js)
       THEN a_pc' = "content_bytes" /\ UNCHANGED a_page_response
       ELSE /\ a_page_response' = [a_page_response EXCEPT !.content = a_html]
            /\ a_pc' = "attach"
    /\ UNCHANGED <<a_openai_config, a_ok, a_prompts, a_prompt, a_json_res,
                   a_gpt_error, a_html, a_asked>>
    /\ UNCHANGED <<fetch_vars, bus_vars, chrome_vars, sem_vars, clean_vars>>

\* page.content_bytes after the script moved the page.
OpenAIContentBytes ==
    /\ a_pc = "content_bytes"
    /\ \/ a_page_response' =
            [a_page_response EXCEPT !.content = Some(Body("moved", "plain"))]
       \/ UNCHANGED a_page_response
    /\ a_pc' = "attach"
    /\ UNCHANGED <<a_openai_config, a_ok, a_prompts, a_prompt, a_json_res,
                   a_gpt_error, a_html, a_asked>>
    /\ UNCHANGED <<fetch_vars, bus_vars, chrome_vars, sem_vars, clean_vars>>

\* The end of one turn: the AIResults of the prompt, with a screenshot when
\* the configuration asks for one and a script ran.
OpenAIAttach ==
    /\ a_pc = "attach"
    /\ IF gpt_configs.extra_ai_data
       THEN \E screenshot_bytes \in
                IF gpt_configs.screenshot /\ ~is_empty(a_json_res.js)
                THEN {None, Some("png")} ELSE {None} :
              a_page_response' =
                  handle_extra_ai_data(a_page_response, a_prompt, a_json_res,
                                       screenshot_bytes, a_gpt_error)
       ELSE UNCHANGED a_page_response
    /\ a_pc' = "loop"
    /\ UNCHANGED <<a_openai_config, a_ok, a_prompts, a_prompt, a_json_res,
                   a_gpt_error, a_html, a_asked>>
    /\ UNCHANGED <<fetch_vars, bus_vars, chrome_vars, sem_vars, clean_vars>>

(* ----------------------------- semaphore ------------------------------ *)

\* The permits of SEM.
SemPermits == 2

\* The most requests in openai_request_base at one time.
MaxRequests == 3

Requests == 1..MaxRequests

\* The requests that hold a permit.
Holders == {r \in Requests : s_pc[r] \in {"acquired", "create"}}

drop_Leaks(permits) == permits

\* drop(permit), written out or at the end of the scope of `permit`.
drop(permits) == permits + 1

\* SEM.acquire(): the permit at once when one is free and nobody waits,
\* the end of the queue otherwise.  SEM is a static that nothing closes, so
\* acquire never gives Err.
SemAcquire(r) ==
    /\ s_pc[r] = "idle"
    /\ IF s_permits > 0 /\ s_queue = <<>>
       THEN /\ s_permits' = s_permits - 1
            /\ s_pc' = [s_pc EXCEPT ![r] = "acquired"]
            /\ UNCHANGED s_queue
       ELSE /\ s_queue' = Append(s_queue, r)
            /\ s_pc' = [s_pc EXCEPT ![r] = "waiting"]
            /\ UNCHANGED s_permits
    /\ UNCHANGED s_path
    /\ UNCHANGED <<fetch_vars, bus_vars, chrome_vars, prompt_vars, clean_vars>>

\* SEM.acquire() of the oldest waiting request completes.
SemGranted(r) ==
    /\ s_pc[r] = "waiting"
    /\ s_queue # <<>> /\ Head(s_queue) = r
    /\ s_permits > 0
    /\ s_permits' = s_permits - 1
    /\ s_queue' = Tail(s_queue)
    /\ s_pc' = [s_pc EXCEPT ![r] = "acquired"]
    /\ UNCHANGED s_path
    /\ UNCHANGED <<fetch_vars, bus_vars, chrome_vars, prompt_vars, clean_vars>>

\* With the permit: the messages and the request are built.  A message that
\* cannot be built ends the call with its error, a request that cannot be
\* built with the empty answer; otherwise the request is sent.
SemBuild(r) ==
    /\ s_pc[r] = "acquired"
    /\ \/ /\ s_pc' = [s_pc EXCEPT ![r] = "returned"]
          /\ s_path' = [s_path EXCEPT ![r] = "message_build_failure"]
          /\ s_permits' = drop(s_permits)
       \/ /\ s_pc' = [s_pc EXCEPT ![r] = "returned"]
          /\ s_path' = [s_path EXCEPT ![r] = "request_build_failure"]
          /\ s_permits' = drop(s_permits)
       \/ /\ s_pc' = [s_pc EXCEPT ![r] = "create"]
          /\ UNCHANGED <<s_path, s_permits>>
    /\ UNCHANGED s_queue
    /\ UNCHANGED <<fetch_vars, bus_vars, chrome_vars, prompt_vars, clean_vars>>

\* chat().create(request) completes, with an answer or with an error.
SemCreated(r) ==
    /\ s_pc[r] = "create"
    /\ \E path \in {"answer", "llm_error"} :
           s_path' = [s_path EXCEPT ![r] = path]
    /\ s_permits' = drop(s_permits)
    /\ s_pc' = [s_pc EXCEPT ![r] = "returned"]
    /\ UNCHANGED s_queue
    /\ UNCHANGED <<fetch_vars, bus_vars, chrome_vars, prompt_vars, clean_vars>>

(* --------------------------- initial states --------------------------- *)

vars == <<fetch_vars, bus_vars, chrome_vars, openai_vars>>

\* No fetch has started.
FetchIdle ==
    /\ env_max_size = None
    /\ tmp_dir = TMP_DIR(TRUE, TRUE)
    /\ dir = [p \in Paths |-> None]
    /\ inodes = [i \in FetchIds |-> <<>>]
    /\ target_url = [f \in FetchIds |-> UrlX]
    /\ backend = [f \in FetchIds |-> "none"]
    /\ pc = [f \in FetchIds |-> "idle"]
    /\ rd = [f \in FetchIds |-> None]
    /\ status_code = [f \in FetchIds |-> DefaultStatus]
    /\ data = [f \in FetchIds |-> BytesMutNew]
    /\ file = [f \in FetchIds |-> None]
    /\ file_path = [f \in FetchIds |-> <<>>]
    /\ text = [f \in FetchIds |-> <<>>]
    /\ buffer = [f \in FetchIds |-> <<>>]
    /\ page_response = [f \in FetchIds |-> None]
    /\ reader = [f \in FetchIds |-> None]
    /\ answered = [f \in FetchIds |-> None]
    /\ received = [f \in FetchIds |-> <<>>]
    /\ nitems = [f \in FetchIds |-> 0]
    /\ created = [f \in FetchIds |-> FALSE]
    /\ io_failed = [f \in FetchIds |-> FALSE]
    /\ io_faults = FALSE

\* Each fetch has been called with the backend `backends` gives it and
\* waits for the response; a fetch with backend "none" never starts.
FetchStartedAs(backends) ==
    /\ dir = [p \in Paths |-> None]
    /\ inodes = [i \in FetchIds |-> <<>>]
    /\ target_url \in [FetchIds -> Urls]
    /\ \A f \in FetchIds : backends[f] = "none" => target_url[f] = UrlX
    /\ backend = backends
    /\ pc = [f \in FetchIds |-> IF backends[f] # "none" THEN "send" ELSE "idle"]
    /\ rd = [f \in FetchIds |-> None]
    /\ status_code = [f \in FetchIds |-> DefaultStatus]
    /\ data = [f \in FetchIds |-> BytesMutNew]
    /\ file = [f \in FetchIds |-> None]
    /\ file_path = [f \in FetchIds |-> <<>>]
    /\ text = [f \in FetchIds |-> <<>>]
    /\ buffer = [f \in FetchIds |-> <<>>]
    /\ page_response = [f \in FetchIds |-> None]
    /\ reader = [f \in FetchIds |-> None]
    /\ answered = [f \in FetchIds |-> None]
    /\ received = [f \in FetchIds |-> <<>>]
    /\ nitems = [f \in FetchIds |-> 0]
    /\ created = [f \in FetchIds |-> FALSE]
    /\ io_failed = [f \in FetchIds |-> FALSE]

\* The fetches of `running` have been called with backend b and wait for
\* the response; the others never start.
FetchStarted(running, b) ==
    FetchStartedAs([f \in FetchIds |-> IF f \in running THEN b ELSE "none"])

\* The control bus as lazy_static builds it: the initial value, and the one
\* Receiver that CONTROLLER keeps beside the Sender.
BusInit ==
    /\ bus = InitialSignal
    /\ receivers = 1
    /\ call = [t \in Tasks |-> None]
    /\ subscribed = [l \in Loops |-> FALSE]
    /\ seen = [l \in Loops |-> None]
    /\ ncalls = 0
    /\ last_call = None
    /\ last_for = [t \in Targets |-> None]

\* The state of a browser-driven fetch before its first step.
BrowserFresh ==
    /\ c_trace = <<>>
    /\ c_req_res = ChromeHTTPReqResDefault
    /\ c_final_url = None
    /\ c_res = <<>>
    /\ c_next_content = None
    /\ c_page_response = None
    /\ c_result = None
    /\ c_response = None
    /\ c_navigation = None
    /\ c_cache = "none"

\* page_wait is not observed.
WaitIdle ==
    /\ w_pc = "idle"
    /\ w_wait_for = None
    /\ w_events = "open"
    /\ w_present = FALSE
    /\ w_lookup = "fast"
    /\ w_turn = 0
    /\ w_trace = <<>>

\* No browser-driven fetch has been called.
BrowserIdle ==
    /\ c_pc = "idle"
    /\ c_entry = "none"
    /\ c_args = None
    /\ c_features = None
    /\ BrowserFresh

\* run_openai_request is not observed.
PromptIdle ==
    /\ a_pc = "idle"
    /\ a_openai_config = None
    /\ a_ok = FALSE
    /\ a_prompts = <<>>
    /\ a_prompt = ""
    /\ a_json_res = JsonResponseDefault
    /\ a_gpt_error = None
    /\ a_html = None
    /\ a_page_response = DefaultPageResponse
    /\ a_asked = <<>>

\* SEM as lazy_static builds it, and no request.
SemIdle ==
    /\ s_permits = SemPermits
    /\ s_pc = [r \in Requests |-> "idle"]
    /\ s_queue = <<>>
    /\ s_path = [r \in Requests |-> "none"]

\* No message is being built.
CleanIdle ==
    /\ m_pc = "idle"
    /\ m_args = None
    /\ m_resource = None
    /\ m_stages = <<>>

OpenAIIdle == PromptIdle /\ SemIdle /\ CleanIdle

\* No navigation is observed for its metadata.
NavIdle ==
    /\ n_pc = "idle"
    /\ n_source = <<>>
    /\ n_http_future = None
    /\ n_req_res = None
    /\ n_policy = None

ChromeIdle == BrowserIdle /\ WaitIdle /\ NavIdle /\ OpenAIIdle

(* --------------------------- specifications --------------------------- *)

\* One fetch through fetch_page_html_raw.
InitRaw ==
    /\ FetchStarted({1}, "raw")
    /\ env_max_size \in EnvValues
    /\ tmp_dir = TMP_DIR(TRUE, TRUE)
    /\ io_faults = FALSE
    /\ chunk_sizes = ChunkSizes
    /\ BusInit
    /\ ChromeIdle

NextRaw == \E f \in FetchIds : Send(f) \/ RawStreamNext(f)

SpecRaw == InitRaw /\ [][NextRaw]_vars

\* One fetch through fetch_page_html of the fs feature, with the size limit
\* unset or set to 1 MiB.
FsEnvValues == {None, Some(<<"1", "0", "4", "8", "5", "7", "6">>)}

InitFs ==
    /\ FetchStarted({1}, "fs")
    /\ env_max_size \in FsEnvValues
    /\ tmp_dir \in TmpDirs
    /\ io_faults \in BOOLEAN
    /\ chunk_sizes = ChunkSizes
    /\ BusInit
    /\ ChromeIdle

\* One fetch through either HTTP backend, fetch_page_html_raw or
\* fetch_page_html of the fs feature, with the size limit unset.
InitHttp ==
    /\ \E b \in {"raw", "fs"} : FetchStarted({1}, b)
    /\ env_max_size = None
    /\ tmp_dir \in TmpDirs
    /\ io_faults \in BOOLEAN
    /\ chunk_sizes = ChunkSizes
    /\ BusInit
    /\ ChromeIdle

NextFs ==
    \E f \in FetchIds :
        \/ Send(f)
        \/ FsStreamNext(f)
        \/ FsCreate(f)
        \/ FsWriteSpill(f)
        \/ FsWriteChunk(f)
        \/ FsOpen(f)
        \/ FsRead(f)
        \/ FsRemove(f)

SpecFs == InitFs /\ [][NextFs]_vars

NextHttp == NextFs \/ \E f \in FetchIds : RawStreamNext(f)

SpecHttp == InitHttp /\ [][NextHttp]_vars

\* Two fetches through fetch_page_html of the fs feature at the same time,
\* of the same URL or of two URLs, with a temp directory that works.
ConcurrentChunkSizes == {1, 8192}

InitFsConcurrent ==
    /\ FetchStarted(FetchIds, "fs")
    /\ env_max_size = None
    /\ tmp_dir = TMP_DIR(TRUE, TRUE)
    /\ io_faults = FALSE
    /\ chunk_sizes = ConcurrentChunkSizes
    /\ BusInit
    /\ ChromeIdle

SpecFsConcurrent == InitFsConcurrent /\ [][NextFs]_vars

\* The same request answered twice: once to fetch_page_html_raw and once to
\* the HTTP code inside fetch_page_html_chrome, with the size limit unset or
\* set to 1 MiB.
PairChunkSizes == {1, 1048576}

InitPair ==
    /\ FetchStartedAs(<<"raw", "chrome_fallback">>)
    /\ target_url[1] = target_url[2]
    /\ env_max_size \in FsEnvValues
    /\ tmp_dir = TMP_DIR(TRUE, TRUE)
    /\ io_faults = FALSE
    /\ chunk_sizes = PairChunkSizes
    /\ BusInit
    /\ ChromeIdle

SpecPair == InitPair /\ [][NextRaw]_vars

\* The control bus, its callers and the crawl loops.
InitBus == FetchIdle /\ chunk_sizes = ChunkSizes /\ BusInit /\ ChromeIdle

NextBus ==
    \/ \E t \in Tasks : BeginCall(t) \/ RunSend(t)
    \/ \E l \in Loops : Subscribe(l) \/ ReadBus(l) \/ Unsubscribe(l)

SpecBus == InitBus /\ [][NextBus]_vars

\* The features a build is compiled with.
Features ==
    [chrome_store_page : BOOLEAN, real_browser : BOOLEAN,
     chrome_screenshot : BOOLEAN, cache_chrome_hybrid : BOOLEAN,
     openai : BOOLEAN]

\* The build the wrappers are explored in.
WrapperFeatures ==
    {ft \in Features : ~ft.chrome_screenshot /\ ~ft.openai /\ ~ft.real_browser}

\* ScreenShotConfig: whether the screenshot is saved to a file, and whether
\* its bytes are wanted in the PageResponse.
ScreenShotConfigs == [save : BOOLEAN, bytes : BOOLEAN]

\* The arguments of fetch_page_html_chrome_base.
BaseArgs ==
    [source : {UrlX, Html}, content : BOOLEAN,
     wait_for_navigation : BOOLEAN, page_set : BOOLEAN,
     screenshot : {None} \cup {Some(ss) : ss \in ScreenShotConfigs},
     openai_config : BOOLEAN]

\* The call a wrapper makes: fetch_page_html_chrome_base(target_url, page,
\* false, true, wait_for, screenshot, page_set, openai_config, url_target),
\* here without a screenshot or an AI configuration.
WrapperArgs ==
    [source : {UrlY}, content : {FALSE}, wait_for_navigation : {TRUE},
     page_set : BOOLEAN, screenshot : {None}, openai_config : {FALSE}]

FallbackChunkSizes == {1048576}

\* One browser-driven fetch: through either wrapper, or
\* fetch_page_html_chrome_base called directly.  A direct call navigates to
\* a URL or sets a text, HTML or the text of a URL, as content; the openai feature comes with a
\* configuration and without one together (either alone leaves
\* run_openai_request without effect, as neither does), and a screenshot
\* configuration comes without the chrome_screenshot feature (with it the
\* feature changes nothing).
InitChrome ==
    /\ FetchIdle
    /\ chunk_sizes = FallbackChunkSizes
    /\ BusInit
    /\ OpenAIIdle
    /\ c_pc = "start"
    /\ \/ /\ c_entry \in Wrappers
          /\ c_args \in {Some(a) : a \in WrapperArgs}
          /\ c_features \in WrapperFeatures
       \/ /\ c_entry = "fetch_page_html_chrome_base"
          /\ c_args \in {Some(a) : a \in BaseArgs}
          /\ ~Unwrap(c_args).content => Unwrap(c_args).source = UrlX
          /\ c_features \in Features
          /\ c_features.openai <=> Unwrap(c_args).openai_config
          /\ ~(c_features.chrome_screenshot /\ IsSome(Unwrap(c_args).screenshot))
    /\ BrowserFresh
    /\ WaitIdle
    /\ NavIdle

NextChrome ==
    \/ ChromeStart
    \/ ChromeWaitNavigation
    \/ ChromePageWait
    \/ ChromeContentBytes
    \/ ChromeCfHandle
    \/ ChromeCfWait1
    \/ ChromeCfEvaluate
    \/ ChromeCfWait2
    \/ ChromeCfContentBytes1
    \/ ChromeCfWait3
    \/ ChromeCfContentBytes2
    \/ ChromeRespond
    \/ ChromeOpenAI
    \/ ChromeScreenshot
    \/ ChromeCache
    \/ ChromeClose
    \/ ChromeReturned
    \/ ChromeFallbackDone
    \/ Send(FallbackFetch)
    \/ RawStreamNext(FallbackFetch)

SpecChrome == InitChrome /\ [][NextChrome]_vars

\* The GPTConfigs of a call: its prompts, whether its model name is empty,
\* and whether it asks for the extra AI data and for screenshots.
PlainGPTConfigs ==
    [prompt : SeqsUpTo(Prompts, MaxPrompts), model_is_empty : BOOLEAN,
     extra_ai_data : BOOLEAN, screenshot : BOOLEAN, prompt_url_map : {None}]

\* A configuration with a prompt_url_map: the map holds nothing for the page,
\* or one GPTConfigs with its own prompts.
MappedGPTConfigs ==
    {[prompt |-> <<"click">>, model_is_empty |-> FALSE,
      extra_ai_data |-> FALSE, screenshot |-> FALSE, prompt_url_map |-> Some(m)] :
        m \in {None,
               Some([prompt |-> <<"scroll", "click">>,
                     model_is_empty |-> FALSE, extra_ai_data |-> TRUE,
                     screenshot |-> FALSE, prompt_url_map |-> None])}}

\* One call of run_openai_request on the PageResponse that
\* fetch_page_html_chrome_base has just built.
InitOpenAI ==
    /\ FetchIdle
    /\ chunk_sizes = FallbackChunkSizes
    /\ BusInit
    /\ BrowserIdle
    /\ WaitIdle
    /\ SemIdle
    /\ NavIdle
    /\ CleanIdle
    /\ a_pc = "start"
    /\ a_openai_config \in
            {None} \cup {Some(c) : c \in PlainGPTConfigs \cup MappedGPTConfigs}
    /\ a_ok \in BOOLEAN
    /\ a_prompts = <<>>
    /\ a_prompt = ""
    /\ a_json_res = JsonResponseDefault
    /\ a_gpt_error = None
    /\ a_html = None
    /\ a_page_response =
            [DefaultPageResponse EXCEPT
                !.content = IF a_ok THEN Some(Body("plain", "plain")) ELSE None]
    /\ a_asked = <<>>

NextOpenAI ==
    \/ OpenAIStart
    \/ OpenAINextPrompt
    \/ OpenAIRequest
    \/ OpenAIEvaluate
    \/ OpenAIPageWait
    \/ OpenAIContentBytes
    \/ OpenAIAttach

SpecOpenAI == InitOpenAI /\ [][NextOpenAI]_vars

\* Several tasks call openai_request_base at the times they choose.
InitSem ==
    /\ FetchIdle
    /\ chunk_sizes = FallbackChunkSizes
    /\ BusInit
    /\ BrowserIdle
    /\ WaitIdle
    /\ PromptIdle
    /\ SemIdle
    /\ NavIdle
    /\ CleanIdle

NextSem ==
    \E r \in Requests :
        SemAcquire(r) \/ SemGranted(r) \/ SemBuild(r) \/ SemCreated(r)

\* The task of a request is scheduled, the semaphore wakes its oldest waiter
\* when a permit is free, and the LLM endpoint answers or fails in the end.
\* Nothing obliges a task to make a request.
SemFairness ==
    \A r \in Requests :
        WF_vars(SemGranted(r)) /\ WF_vars(SemBuild(r)) /\ WF_vars(SemCreated(r))

SpecSem == InitSem /\ [][NextSem]_vars /\ SemFairness

\* One call of page_wait, with any wait_for, on a page whose event stream
\* may end and whose element may come late or never.
InitWait ==
    /\ FetchIdle
    /\ chunk_sizes = FallbackChunkSizes
    /\ BusInit
    /\ OpenAIIdle
    /\ BrowserIdle
    /\ NavIdle
    /\ w_pc = "start"
    /\ w_wait_for \in WaitFors
    /\ w_events = "open"
    /\ w_present \in BOOLEAN
    /\ w_lookup \in {"fast", "slow"}
    /\ w_turn = 0
    /\ w_trace = <<>>

NextWait == WaitProgress \/ EventStreamEnds \/ ElementAppears

\* Time passes and the task is scheduled: every step page_wait can take, and
\* every timer that can fire, eventually does, and a lookup that answers
\* within one turn of the selector loop is answered.  Nothing obliges the
\* page to send an event, to end its stream or to show the element.
WaitFairness ==
    /\ WF_vars(PageWaitCall)
    /\ WF_vars(SelectorFound)
    /\ WF_vars(EventListen)
    /\ WF_vars(EventSleepElapsed)
    /\ WF_vars(EventTimeoutElapsed)
    /\ WF_vars(EventEndOfStream)
    /\ WF_vars(SelectorSleepElapsed)
    /\ WF_vars(SelectorTimeoutElapsed)
    /\ WF_vars(DelayElapsed)

SpecWait == InitWait /\ [][NextWait]_vars /\ WaitFairness

(* ------------------------------ claims -------------------------------- *)

\* The fetch f has returned the PageResponse of a successful response.
Returned(f) ==
    /\ pc[f] = "done"
    /\ IsSome(page_response[f])
    /\ IsSome(Unwrap(page_response[f]).content)

Content(f) == Unwrap(Unwrap(page_response[f]).content)

\* C1: when fetch_page_html_chrome_base returned an error to fetch_page_html
\* or fetch_page_html_chrome, the caller receives the PageResponse of an HTTP
\* GET of the same URL, with the status code the server answered.
C1_BrowserErrorFallsBack ==
    /\ c_entry \in Wrappers
    /\ c_pc = "done"
    /\ ~Unwrap(c_result).ok
    => /\ IsSome(c_response)
       /\ backend[FallbackFetch] = FallbackBackend(c_entry)
       /\ pc[FallbackFetch] = "done"
       /\ target_url[FallbackFetch] = Unwrap(c_args).source
       /\ c_response = page_response[FallbackFetch]
       /\ IsSome(answered[FallbackFetch])
              => Unwrap(c_response).status_code =
                     Unwrap(answered[FallbackFetch]).status

\* fetch_page_html_chrome whose body capture failed after a navigation that
\* recorded 200, and whose HTTP request was answered 404.
C1_Witness ==
    /\ c_entry = "fetch_page_html_chrome"
    /\ c_pc = "done"
    /\ ~Unwrap(c_result).ok
    /\ c_trace[Len(c_trace)] = "content_bytes"
    /\ c_req_res.status_code = 200
    /\ Unwrap(c_args).source = UrlY
    /\ IsSome(answered[FallbackFetch])
    /\ Unwrap(answered[FallbackFetch]).status = 404
    /\ Unwrap(c_response).status_code = 404

\* C2: in fetch_page_html_raw, with an effective limit N > 0 neither the
\* buffer nor the returned content is ever longer than N bytes, and with
\* limit 0 the returned content is the concatenation of all chunks received.
C2_RawContentWithinLimit ==
    \A f \in FetchIds :
        backend[f] = "raw" =>
            LET limit == MAX_SIZE_BYTES(env_max_size)
            IN  /\ limit > 0 => BytesLen(data[f].buf) <= limit
                /\ Returned(f) /\ limit > 0 => BytesLen(Content(f)) <= limit
                /\ Returned(f) /\ limit = 0 => Content(f) = received[f]

\* The limit is 1 MiB, the chunks received add up to more, and the fetch
\* has returned.
C2_Witness ==
    /\ backend[1] = "raw"
    /\ Returned(1)
    /\ MAX_SIZE_BYTES(env_max_size) = 1048576
    /\ BytesLen(received[1]) > 1048576
    /\ Content(1) # <<>>

\* C3: the disk-spillover backend never returns content longer than the
\* effective limit N > 0.
C3_FsContentWithinLimit ==
    \A f \in FetchIds :
        backend[f] = "fs" /\ Returned(f) /\ MAX_SIZE_BYTES(env_max_size) > 0
            => BytesLen(Content(f)) <= MAX_SIZE_BYTES(env_max_size)

C5_NoFileBelowThreshold ==
    \A f \in FetchIds :
        backend[f] = "fs" /\ BytesLen(received[f]) < 8192
            => /\ ~created[f]
               /\ Returned(f) => Content(f) = received[f]

\* C6: in the disk-spillover backend the returned content holds every
\* received chunk once and in order, whichever temp-file operations failed.
C6_FaultsLoseNothing ==
    \A f \in FetchIds :
        backend[f] = "fs" /\ Returned(f) => Content(f) = received[f]

\* C7: when all the concurrent fetches have returned, each holds exactly
\* the concatenation of its own chunks.
C7_FetchesIsolated ==
    (\A f \in FetchIds : backend[f] = "fs" /\ pc[f] = "done")
        => \A f \in FetchIds :
               IsSome(Unwrap(page_response[f]).content) => Content(f) = received[f]

\* C10: unless chrome_store_page is enabled, fetch_page_html_chrome_base has
\* issued the page-close command whenever it has returned, with Ok or Err.
C10_CloseBeforeReturn ==
    IsSome(c_result) /\ ~c_features.chrome_store_page
        => \E i \in 1..Len(c_trace) : c_trace[i] = "close"

\* The signal the contract gives each call.
SignalOf(op) ==
    CASE op = "pause"    -> "Pause"
      [] op = "resume"   -> "Resume"
      [] op = "shutdown" -> "Shutdown"
      [] op = "reset"    -> "Start"

\* C8: the bus holds the (target, signal) pair of the call whose send ran
\* last, whether or not a crawl loop has subscribed, and ("handles", Start)
\* before any call.
C8_BusHoldsLastCall ==
    bus = IF IsSome(last_call)
          THEN <<Unwrap(last_call).target, SignalOf(Unwrap(last_call).op)>>
          ELSE InitialSignal

\* pause("siteA") then resume("siteB") with no crawl loop subscribed.
C8_Witness ==
    /\ \A t \in Tasks : call[t] = None
    /\ \A l \in Loops : ~subscribed[l]
    /\ ncalls = 2
    /\ last_for["siteA"] = Some("pause")
    /\ last_call = Some([op |-> "resume", target |-> "siteB"])
    /\ bus = <<"siteB", "Resume">>

AllCallsCompleted == ncalls > 0 /\ \A t \in Tasks : call[t] = None

\* C9 as stated: once all calls have completed, for every target the bus
\* shows the last signal sent for that target.
C9_LastSignalPerTarget ==
    AllCallsCompleted =>
        \A tg \in Targets :
            IsSome(last_for[tg]) => bus = <<tg, SignalOf(Unwrap(last_for[tg]))>>

\* C9 amended: once all calls have completed, the bus shows the last signal
\* sent for the target addressed last, and nothing of any other target.
C9_LastSignalOverall ==
    AllCallsCompleted =>
        \A tg \in Targets :
            IF Unwrap(last_call).target = tg
            THEN bus = <<tg, SignalOf(Unwrap(last_for[tg]))>>
            ELSE bus[1] # tg

\* Both targets were signalled by concurrent tasks, a crawl loop has read
\* the bus after the last send, and siteA's signal is no longer on it.
C9_Witness ==
    /\ AllCallsCompleted
    /\ ncalls = 3
    /\ last_for["siteA"] = Some("shutdown")
    /\ last_for["siteB"] = Some("resume")
    /\ subscribed[1]
    /\ seen[1] = Some(bus)
    /\ bus = <<"siteB", "Resume">>

\* The place of a step up to the challenge ladder: navigate (or the content
\* set), the waits, the capture, challenge detection and its ladder.
EarlyRank(step) ==
    CASE step \in {"navigate", "set_content"}         -> 1
      [] step = "wait_for_navigation"                  -> 2
      [] step = "page_wait"                            -> 3
      [] step = "content_bytes"                        -> 4
      [] step = "cf_handle"                            -> 5
      [] step = "cf_page_wait_1"                       -> 6
      [] step \in {"cf_evaluate", "cf_evaluate_failed"} -> 7
      [] step = "cf_page_wait_2"                       -> 8
      [] step = "cf_content_bytes_1"                   -> 9
      [] step = "cf_page_wait_3"                       -> 10
      [] step = "cf_content_bytes_2"                   -> 11
      [] OTHER                                         -> 0

\* The place of a step in the order C11 states: navigate, wait, capture,
\* challenge detection, cache write, screenshot, AI augmentation, close.
ClaimedRank(step) ==
    CASE step = "put_hybrid_cache"   -> 12
      [] step \in {"perform_screenshot", "perform_screenshot_failed"} -> 13
      [] step = "run_openai_request" -> 14
      [] step = "close"              -> 15
      [] OTHER                       -> EarlyRank(step)

\* The place of a step in the order: navigate, wait, capture, challenge
\* detection, AI augmentation, screenshot, cache write, close.
AmendedRank(step) ==
    CASE step = "run_openai_request" -> 12
      [] step \in {"perform_screenshot", "perform_screenshot_failed"} -> 13
      [] step = "put_hybrid_cache"   -> 14
      [] step = "close"              -> 15
      [] OTHER                       -> EarlyRank(step)

\* The step named has been taken.
Took(step) == \E i \in 1..Len(c_trace) : c_trace[i] = step

MatchesNoMarker(b) ==
    /\ ~ends_with(b, "CF_END")
    /\ ~ends_with(b, "CF_END2")
    /\ ~(starts_with(b, "CF_HEAD") /\ ends_with(b, "CF_MOCK_FRAME"))

\* C12: challenge handling on a body that matches none of the challenge
\* markers leaves the body unchanged and interacts with the page not at
\* all: the fetch goes from the call of cf_handle straight to building its
\* response, with no wait, no script evaluation and no re-capture.
C12_NoMarkerNoInteraction ==
    [][c_pc = "cf_handle" /\ MatchesNoMarker(c_res)
         => /\ c_res' = c_res
            /\ c_pc' = "respond"
            /\ c_trace' \in {c_trace, Append(c_trace, "cf_handle")}]_vars

\* cf_handle has just run, under real_browser, on a body that opens with the
\* head marker but ends with no marker.
C12_Witness ==
    /\ c_features.real_browser
    /\ c_pc = "respond"
    /\ c_trace[Len(c_trace)] = "cf_handle"
    /\ c_res = Body("CF_HEAD", "plain")

\* i and j are places of the trace, i before j, holding the steps named.
Before(first, second) ==
    \E i, j \in 1..Len(c_trace) :
        i < j /\ c_trace[i] \in first /\ c_trace[j] = second

\* C13: under real_browser a captured body that ends with the Cloudflare
\* trailer sets the ladder off, and the ladder runs a first wait, then the
\* iframe script (failing or not), then a second wait, and only then
\* captures the body again; the fetch builds its response only after that
\* re-capture.
C13_LadderOrder ==
    /\ [][c_pc = "cf_handle" /\ c_features.real_browser
             /\ ends_with(c_res, "CF_END")
          => c_pc' = "cf_wait_1" /\ c_res' = c_res]_vars
    /\ [](Took("cf_evaluate") \/ Took("cf_evaluate_failed")
            => Before({"cf_page_wait_1"}, "cf_evaluate")
               \/ Before({"cf_page_wait_1"}, "cf_evaluate_failed"))
    /\ [](Took("cf_page_wait_2")
            => Before({"cf_evaluate", "cf_evaluate_failed"}, "cf_page_wait_2"))
    /\ [](Took("cf_content_bytes_1")
            => Before({"cf_page_wait_2"}, "cf_content_bytes_1"))
    /\ [](c_pc \in {"cf_wait_1", "cf_evaluate", "cf_wait_2", "cf_content_bytes_1"}
            => ~Took("cf_content_bytes_1"))
    /\ [](c_pc \in {"respond", "openai", "screenshot", "cache", "close"}
            /\ Took("cf_page_wait_1")
            => Took("cf_content_bytes_1"))

\* A body ending with the trailer set the ladder off; the script failed,
\* the ladder went on and captured the body again, which was a challenge
\* still.
C13_Witness ==
    /\ c_features.real_browser
    /\ c_pc = "cf_wait_3"
    /\ c_res = Body("plain", "CF_END")
    /\ Took("cf_evaluate_failed")
    /\ c_trace[Len(c_trace)] = "cf_content_bytes_1"

\* The body is the challenge template of the firewall: it starts with the
\* head marker and ends with the script and the hidden frame.
IsChallengeTemplate(b) ==
    starts_with(b, "style_global") /\ ends_with(b, "script_mock_frame")

\* C14: the status the fetch reports is Forbidden when the navigation
\* flagged a challenge (waf_check) and the body as it is after the ladder
\* matches the challenge template, and the status recorded for the
\* navigation in every other case; what was recorded for the navigation is
\* not touched before, and the status reported is not touched after.
C14_ForbiddenOnTemplate ==
    /\ [][c_pc = "respond"
            => Unwrap(c_page_response').status_code =
                   IF c_req_res.waf_check /\ IsChallengeTemplate(c_res)
                   THEN FORBIDDEN
                   ELSE c_req_res.status_code]_vars
    /\ [][c_pc \notin {"start", "respond"} => c_req_res' = c_req_res]_vars
    /\ [][c_pc = "page_wait" \/ (c_pc = "cf_handle" /\ ~IsChallenge(c_res))
            => c_res' = c_res]_vars
    /\ [][IsSome(c_page_response)
            => /\ IsSome(c_page_response')
               /\ Unwrap(c_page_response').status_code =
                      Unwrap(c_page_response).status_code]_vars
    /\ [](IsSome(c_result) /\ Unwrap(c_result).ok
            => Unwrap(c_result).page = c_page_response)
    /\ [](c_pc \in {"start", "wait_navigation"}
            /\ (Unwrap(c_args).page_set \/ Unwrap(c_args).content)
            => c_req_res = ChromeHTTPReqResDefault)

\* The navigation answered 404 with the challenge flagged, the ladder ran to
\* its end and the body is the template still: the fetch returned 403.
C14_Witness ==
    /\ c_pc = "returned"
    /\ Unwrap(c_result).ok
    /\ c_req_res.waf_check
    /\ Took("cf_content_bytes_2")
    /\ c_res = Body("CF_HEAD", "script_mock_frame")
    /\ Unwrap(Unwrap(c_result).page).status_code = FORBIDDEN

\* C15: the hybrid cache is written only by a fetch that navigated: never
\* by one that set its source as content, nor by one on a page already set.
C15_CacheOnlyAfterNavigation ==
    c_cache = "written"
        => /\ ~Unwrap(c_args).content
           /\ ~Unwrap(c_args).page_set
           /\ Took("navigate")

\* C16: a cache write that fails is not surfaced: the step leaves the
\* PageResponse and the result as a write that succeeds does, the fetch
\* goes on to the page close, and a fetch whose write failed has issued the
\* close when it returns (unless chrome_store_page keeps the page) and
\* returns the PageResponse it had built.
C16_CacheFailureSwallowed ==
    /\ [][c_pc = "cache"
            => /\ c_pc' = "close"
               /\ c_page_response' = c_page_response
               /\ c_result' = c_result]_vars
    /\ [](c_cache = "failed" /\ c_pc = "returned"
            => /\ c_features.chrome_store_page \/ Took("close")
               /\ Unwrap(c_result).ok
                      => Unwrap(c_result).page = c_page_response)

\* The cache write failed; the page was closed and the fetch returned Ok
\* with the body it had captured.
C16_Witness ==
    /\ c_cache = "failed"
    /\ c_pc = "returned"
    /\ Unwrap(c_result).ok
    /\ c_trace[Len(c_trace)] = "close"
    /\ Unwrap(Unwrap(c_result).page).content = Some(Body("plain", "plain"))

\* The URL last in the redirect chain of the navigation, if there is one.
LastOfChain(nav) ==
    IF IsSome(nav) /\ Unwrap(nav) # <<>>
    THEN Unwrap(nav)[Len(Unwrap(nav))]
    ELSE None

\* C17: final_url is set exactly when a redirect changed the requested URL.
\* A PageResponse built from a successful HTTP response has final_url =
\* Some(u) when the response URL u differs from the requested URL and None
\* otherwise; a PageResponse built by the browser has final_url = Some(u)
\* when the last URL u of the redirect chain exists and differs from the
\* requested URL and None otherwise.
C17_FinalUrlIffRedirect ==
    /\ \A f \in FetchIds :
           /\ pc[f] = "done"
           /\ IsSome(answered[f])
           /\ is_success(Unwrap(answered[f]).status)
           => Unwrap(page_response[f]).final_url =
                  IF Unwrap(answered[f]).url # target_url[f]
                  THEN Some(Unwrap(answered[f]).url)
                  ELSE None
    /\ IsSome(c_page_response)
           => Unwrap(c_page_response).final_url =
                  IF /\ IsSome(LastOfChain(c_navigation))
                     /\ Unwrap(LastOfChain(c_navigation)) # Unwrap(c_args).source
                  THEN LastOfChain(c_navigation)
                  ELSE None

\* C18: a fetch through an HTTP backend whose request failed in transport
\* has returned the default PageResponse: no content, no final_url, no
\* headers, the default status; it has returned, with no error.
C18_TransportErrorGivesDefault ==
    /\ [](\A f \in FetchIds :
            pc[f] = "done" /\ ~IsSome(answered[f])
                => /\ IsSome(page_response[f])
                   /\ Unwrap(page_response[f]).content = None
                   /\ Unwrap(page_response[f]).final_url = None
                   /\ Unwrap(page_response[f]).headers = None
                   /\ Unwrap(page_response[f]).status_code = DefaultStatus)
    /\ [][\A f \in FetchIds :
             pc[f] = "send" /\ ~IsSome(answered'[f]) /\ pc'[f] # "send"
                 => pc'[f] = "done"]_vars

\* The request of a fetch through the fs backend failed in transport, and
\* the fetch has returned.
C18_Witness ==
    /\ backend[1] = "fs"
    /\ pc[1] = "done"
    /\ answered[1] = None
    /\ page_response[1] = Some(DefaultPageResponse)

\* The bytes the fetch f received do not pass the size limit.
WithinLimit(f) ==
    \/ MAX_SIZE_BYTES(env_max_size) = 0
    \/ BytesLen(received[f]) <= MAX_SIZE_BYTES(env_max_size)

\* C19: in the PageResponse a backend has returned, content is None only
\* when no body byte was obtained, and when at least one body byte was
\* obtained (and the size limit cut nothing off) content is Some and holds
\* the bytes obtained.
C19_ContentHoldsBytes ==
    /\ \A f \in FetchIds :
           pc[f] = "done" /\ IsSome(page_response[f])
               => /\ ~IsSome(Unwrap(page_response[f]).content)
                         => received[f] = <<>>
                  /\ BytesLen(received[f]) > 0 /\ WithinLimit(f)
                         => /\ IsSome(Unwrap(page_response[f]).content)
                            /\ Content(f) = received[f]
    /\ c_pc = "openai"
           => Unwrap(c_page_response).content =
                  IF BytesLen(c_res) > 0 THEN Some(c_res) ELSE None

\* Every sub-spec present in the WaitFor carries a timeout.
AllBounded(wait_for) ==
    IsSome(wait_for)
        => LET wf == Unwrap(wait_for)
           IN  /\ IsSome(wf.idle_network) => TimeoutArmed(wf.idle_network)
               /\ IsSome(wf.selector) => TimeoutArmed(wf.selector)
               /\ IsSome(wf.delay) => TimeoutArmed(wf.delay)

\* C20: page_wait called with a WaitFor whose present sub-specs all carry a
\* timeout eventually returns, whether or not events arrive and whether or
\* not the selected element ever appears.
C20_BoundedWaitReturns ==
    (w_pc = "start" /\ AllBounded(w_wait_for)) ~> (w_pc = "returned")

\* The usage records of a PageResponse, none when the list was never made.
UsageList(page) ==
    IF IsSome(page.openai_credits_used) THEN Unwrap(page.openai_credits_used)
    ELSE <<>>

\* C21: when run_openai_request returns, every prompt of the configuration
\* it ran with has been asked, in the order of the configuration, whatever
\* the AI answered and whether or not its script could be evaluated, and the
\* usage list holds one record per prompt: the i-th record is the usage of
\* the request made for the i-th prompt.
C21_OneUsagePerPrompt ==
    (a_pc = "returned" /\ IsSome(ResolvedConfigs(a_openai_config))) =>
        /\ Len(a_asked) = Len(gpt_configs.prompt)
        /\ \A i \in 1..Len(a_asked) : a_asked[i].prompt = gpt_configs.prompt[i]
        /\ UsageList(a_page_response) =
               [i \in 1..Len(a_asked) |-> a_asked[i].usage]

\* Two prompts were processed: the request for the first gave an error and
\* no usage, and the second was still asked and its usage recorded.
C21_Witness ==
    /\ a_pc = "returned"
    /\ IsSome(ResolvedConfigs(a_openai_config))
    /\ Len(gpt_configs.prompt) = 2
    /\ IsSome(a_page_response.extra_ai_data)
    /\ Len(Unwrap(a_page_response.extra_ai_data)) = 2
    /\ IsSome(Unwrap(a_page_response.extra_ai_data)[1].error)
    /\ UsageList(a_page_response) = <<0, 1>>

\* C22: the requests holding a permit of SEM never outnumber its permits;
\* each request gives its permit back on the path it returns by (answer, LLM
\* error, request-build failure, message-build failure), so the permits left
\* and the permits held always add up to the permits of SEM; and a request
\* waiting for a permit obtains one.
C22_PermitsBoundedAndReturned ==
    /\ [](Cardinality(Holders) <= SemPermits)
    /\ [](s_permits + Cardinality(Holders) = SemPermits)
    /\ \A r \in Requests : (s_pc[r] = "waiting") ~> (r \in Holders)

\* A request waits at the head of the queue, and a permit is free again
\* because a request whose message could not be built returned.
C22_Witness ==
    /\ \E r \in Requests : s_pc[r] = "waiting" /\ Head(s_queue) = r
    /\ s_permits > 0
    /\ \E r \in Requests :
           s_pc[r] = "returned" /\ s_path[r] = "message_build_failure"

\* C23: a screenshot that fails leaves the PageResponse as it was (content,
\* status_code, final_url, and screenshot_bytes None) and the fetch goes on
\* to the cache write and the page close without returning an error for it;
\* and screenshot_bytes is Some only if a screenshot configuration with
\* bytes = true was given and the capture succeeded.
C23_ScreenshotFailureContained ==
    /\ [][(c_pc = "screenshot"
            /\ c_trace' = Append(c_trace, "perform_screenshot_failed"))
              => /\ c_page_response' = c_page_response
                 /\ Unwrap(c_page_response').screenshot_bytes = None
                 /\ c_result' = None
                 /\ c_pc' = "cache"]_vars
    /\ [](IsSome(c_page_response)
            /\ IsSome(Unwrap(c_page_response).screenshot_bytes)
              => /\ IsSome(Unwrap(c_args).screenshot)
                 /\ Unwrap(Unwrap(c_args).screenshot).bytes
                 /\ Took("perform_screenshot"))
    /\ []((c_pc = "returned" /\ Took("perform_screenshot_failed"))
              => c_features.chrome_store_page \/ Took("close"))

\* A fetch asked for the bytes of a screenshot, the capture failed, and the
\* fetch closed the page and returned its PageResponse without the bytes.
C23_Witness ==
    /\ c_pc = "returned"
    /\ Unwrap(c_result).ok
    /\ IsSome(Unwrap(c_args).screenshot)
    /\ Unwrap(Unwrap(c_args).screenshot).bytes
    /\ Took("perform_screenshot_failed") /\ Took("close")
    /\ IsSome(Unwrap(c_page_response).content)
    /\ Unwrap(c_page_response).screenshot_bytes = None

\* The override is absent, or it is a number that is 0.
AbsentOrZero(var) == ~IsSome(var) \/ ParseUsize(Unwrap(var)) = Some(0)

\* C24: whatever the value of SPIDER_MAX_SIZE_BYTES, the limit a fetch ran
\* with is 0 or at least 1,048,576; it is 0 only if the variable is absent
\* or is 0; and a value that is not a number gives 1,073,741,824.
C24_FloorUnlessZero ==
    \A f \in FetchIds :
        pc[f] = "done" =>
            LET limit == MAX_SIZE_BYTES(env_max_size)
            IN  /\ limit = 0 \/ limit >= MIN_MAX_SIZE_BYTES
                /\ limit = 0 => AbsentOrZero(env_max_size)
                /\ (IsSome(env_max_size)
                      /\ ~IsSome(ParseUsize(Unwrap(env_max_size))))
                        => limit = DEFAULT_MAX_SIZE_BYTES

C26_CloseFailureKeepsPage ==
    (/\ c_entry \in Wrappers
     /\ Took("close")
     /\ IsSome(c_result) /\ ~Unwrap(c_result).ok)
        => /\ pc[FallbackFetch] = "idle"
           /\ c_pc = "done" => c_response = c_page_response

\* How many times the step named has been taken.
Count(step) == Cardinality({i \in 1..Len(c_trace) : c_trace[i] = step})

\* The step taken last.
LastStep == c_trace[Len(c_trace)]

\* C27: one cf_handle call on a challenge body runs one pass: it evaluates
\* the frame script once (never twice, and once whenever the ladder has
\* reached the first re-capture), calls page_wait at most three times and
\* captures the body again at most twice, and it waits and captures the
\* second time only when the body of the first re-capture is still a
\* challenge.
C27_OneEscalationPass ==
    /\ [](/\ Count("cf_evaluate") + Count("cf_evaluate_failed") <= 1
          /\ Took("cf_content_bytes_1")
                => Count("cf_evaluate") + Count("cf_evaluate_failed") = 1
          /\ Count("cf_page_wait_1") + Count("cf_page_wait_2")
                + Count("cf_page_wait_3") <= 3
          /\ Count("cf_content_bytes_1") + Count("cf_content_bytes_2") <= 2
          /\ Count("cf_content_bytes_1") <= 1)
    /\ [][(c_trace' # c_trace
            /\ LastStep' \in {"cf_page_wait_3", "cf_content_bytes_2"})
              => /\ IsSome(c_next_content)
                 /\ IsChallenge(Unwrap(c_next_content))
                 /\ Took("cf_content_bytes_1")
                 /\ ~Took("cf_content_bytes_2")]_vars

\* The ladder ran to its end: three waits, one evaluation, two re-captures,
\* and the fetch went on to build its PageResponse.
C27_Witness ==
    /\ c_pc = "openai"
    /\ Count("cf_evaluate") = 1
    /\ Count("cf_page_wait_1") = 1 /\ Count("cf_page_wait_2") = 1
    /\ Count("cf_page_wait_3") = 1
    /\ Count("cf_content_bytes_1") = 1 /\ Count("cf_content_bytes_2") = 1
    /\ IsChallenge(c_res)

\* C28: when cf_handle has returned on a challenge body, the body the fetch
\* goes on with is the body captured last in the ladder: whenever a
\* re-capture succeeded it is the body of the last re-capture that did (the
\* first when it is no challenge or when the second capture failed, the
\* second otherwise), and it is the original body only if none succeeded.
C28_LastCaptureHandedOn ==
    (c_pc = "respond" /\ Took("cf_page_wait_1") /\ IsSome(c_next_content))
        => c_res = Unwrap(c_next_content)

\* C29: wait_for_selector, waiting without a timeout for an element that is
\* in the page, leaves its loop, which it can only do through a lookup that
\* succeeded, whether a lookup answers within the 50 ms of one turn or takes
\* longer.
C29_SlowLookupCompletes ==
    (/\ w_pc = "selector_loop"
     /\ w_present
     /\ ~TimeoutArmed(Unwrap(w_wait_for).selector))
        ~> (w_pc # "selector_loop")

\* C30: wait_for_event, once the event stream it listens to has ended,
\* leaves its loop, with or without a timeout around it.
C30_EndOfStreamTerminates ==
    (w_pc = "event_loop" /\ w_events = "ended") ~> (w_pc # "event_loop")

\* The lengths of the chunks of a body, in order.
Lens(bytes) == [i \in 1..Len(bytes) |-> bytes[i].len]

\* The body of an Option<Bytes>, as the lengths of its chunks.
BodyShape(content) == IF IsSome(content) THEN Some(Lens(Unwrap(content))) ELSE None

\* C31: when fetch_page_html_raw and the HTTP code inside
\* fetch_page_html_chrome have been given the same response to the same
\* request (same status, same final URL, same chunks), their PageResponses
\* agree on content, status_code, headers and final_url.
C31_FallbackEqualsRaw ==
    (/\ backend[1] = "raw" /\ backend[2] = "chrome_fallback"
     /\ pc[1] = "done" /\ pc[2] = "done"
     /\ target_url[1] = target_url[2]
     /\ answered[1] = answered[2]
     /\ Lens(received[1]) = Lens(received[2]))
        => LET raw == Unwrap(page_response[1])
               inline == Unwrap(page_response[2])
           IN  /\ BodyShape(raw.content) = BodyShape(inline.content)
               /\ raw.status_code = inline.status_code
               /\ raw.headers = inline.headers
               /\ raw.final_url = inline.final_url

\* The waits a WaitFor asks for, in the order idle_network, selector, delay:
\* the sub-specs that are present, the delay only with a duration.
WaitsAskedFor(wait_for) ==
    IF ~IsSome(wait_for) THEN <<>>
    ELSE LET wf == Unwrap(wait_for)
         IN  (IF IsSome(wf.idle_network) THEN <<"idle_network">> ELSE <<>>)
             \o (IF IsSome(wf.selector) THEN <<"selector">> ELSE <<>>)
             \o (IF IsSome(wf.delay) /\ IsSome(Unwrap(wf.delay).timeout)
                 THEN <<"delay">> ELSE <<>>)

IsPrefix(p, q) == Len(p) <= Len(q) /\ SubSeq(q, 1, Len(p)) = p

\* C32: the waits page_wait has started are, at every moment, the first of
\* the waits asked for in the order idle_network, selector, delay, the one
\* it is in being the last started; when it returns it has run all of them
\* and no other; and without a WaitFor it runs none.
C32_WaitsInOrder ==
    /\ IsPrefix(w_trace, WaitsAskedFor(w_wait_for))
    /\ StageOf(w_pc) # "none" => w_trace[Len(w_trace)] = StageOf(w_pc)
    /\ w_pc = "returned" => w_trace = WaitsAskedFor(w_wait_for)
    /\ ~IsSome(w_wait_for) => w_trace = <<>> /\ w_pc \in {"start", "returned"}

\* page_wait has returned from a WaitFor with all three conditions, having
\* run the three waits.
C32_Witness ==
    /\ w_pc = "returned"
    /\ w_trace = <<"idle_network", "selector", "delay">>

\* C33: wait_for_event, once it listens, resolves: it leaves its loop at the
\* first event, when 500 ms have passed without one, or when its timeout
\* elapses; and the event it receives ends it, it does not wait for a
\* second one.
C33_ResolvesAtFirstOf ==
    /\ (w_pc = "event_loop") ~> (w_pc # "event_loop")
    /\ [][EventReceived => w_pc' # "event_loop"]_vars

\* A lookup of wait_for_selector can succeed: the element is in the page and
\* the lookup answers within one turn of the loop.
LookupSucceeds == w_present /\ w_lookup = "fast"

NavSources == {<<"https://a.t", "/x">>, <<"https://a.t">>}

ResponseUrls ==
    {<<"https://a.t", "/x">>,
     <<"https://a.t", "/x", "?q=1">>,
     <<"https://a.t", "/x", "/cdn-cgi/challenge-platform">>,
     <<"https://a.t", "/cdn-cgi/challenge-platform", "/h">>,
     <<"https://b.t", "/y">>,
     <<"https://b.t", "/cdn-cgi/challenge-platform", "/h">>}

\* response.url.starts_with(source)
url_starts_with(url, source) == IsPrefix(source, url)

\* response.url.contains(piece)
url_contains(url, piece) == \E i \in 1..Len(url) : url[i] = piece

\* std::collections::HashMap<String, String>, as a function of its keys.
EmptyMap == [k \in {} |-> ""]

RequestHeaderMaps ==
    {EmptyMap,
     "accept" :> "text/html",
     ("accept" :> "text/html") @@ ("bad name" :> "v")}

\* response.headers.inner(), a JSON value: an object of strings, or not an
\* object.
ResponseHeaderValues ==
    {[kind |-> "null", fields |-> EmptyMap],
     [kind |-> "object", fields |-> "cache-control" :> "max-age=60"],
     [kind |-> "object",
      fields |-> ("cache-control" :> "max-age=60") @@ ("x-note" :> "a\nb")]}

SecurityDetails ==
    {[subject_name |-> "challenges.cloudflare.com"], [subject_name |-> "a.t"]}

NavResponses ==
    [url : ResponseUrls,
     protocol : {None, Some("h2"), Some("blob")},
     headers : ResponseHeaderValues,
     security_details : {None} \cup {Some(d) : d \in SecurityDetails},
     status : {200, 0}]

NavRequests ==
    [method : {None, Some("POST")},
     headers : RequestHeaderMaps,
     response : {None} \cup {Some(r) : r \in NavResponses}]

\* What page.http_future(..)?.await gives: an error, or the request of the
\* navigation if there was one.
HttpFutures ==
    {[ok |-> FALSE, request |-> None]}
    \cup {[ok |-> TRUE, request |-> r] :
            r \in {None} \cup {Some(q) : q \in NavRequests}}

EXPECTATION_FAILED == 417

\* StatusCode::from_u16(n).unwrap_or(StatusCode::EXPECTATION_FAILED)
from_u16(n) == IF n >= 100 /\ n < 1000 THEN n ELSE EXPECTATION_FAILED

\* v.to_string() of a JSON string: its JSON text, quotes included.
to_string(v) == "\"" \o v \o "\""

\* waf_check as perform_chrome_http_request computes it from the response.
waf_check(source, response) ==
    IF ~url_starts_with(response.url, source)
    THEN LET first ==
                 IF IsSome(response.security_details)
                 THEN Unwrap(response.security_details).subject_name
                          = "challenges.cloudflare.com"
                 ELSE url_contains(response.url, "/cdn-cgi/challenge-platform")
         IN  IF ~first
             THEN IF IsSome(response.protocol)
                  THEN Unwrap(response.protocol) = "blob"
                  ELSE FALSE
             ELSE first
    ELSE FALSE

\* perform_chrome_http_request, given what http_future answered with.
perform_chrome_http_request(source, http_request) ==
    LET request == Unwrap(http_request)
        answered_req == IsSome(http_request)
        answered_res == answered_req /\ IsSome(request.response)
        response == Unwrap(request.response)
    IN  [waf_check |-> IF answered_res THEN waf_check(source, response)
                       ELSE FALSE,
         status_code |-> IF answered_res THEN from_u16(response.status)
                         ELSE DefaultStatus,
         method |-> IF answered_req /\ IsSome(request.method)
                    THEN Unwrap(request.method) ELSE "GET",
         response_headers |->
             IF answered_res /\ response.headers.kind = "object"
             THEN [k \in DOMAIN response.headers.fields |->
                      to_string(response.headers.fields[k])]
             ELSE EmptyMap,
         request_headers |-> IF answered_req THEN request.headers
                             ELSE EmptyMap,
         protocol |-> IF answered_res /\ IsSome(response.protocol)
                      THEN Unwrap(response.protocol) ELSE "http/1.1"]

\* http::HeaderName::from_str(k) is Ok
HeaderNameOk(k) == k # "bad name"

\* http::HeaderValue::from_str(v) is Ok
HeaderValueOk(v) == v \notin {"a\nb", to_string("a\nb")}

\* convert_headers: the entries whose name and value both parse.
convert_headers(headers) ==
    [k \in {h \in DOMAIN headers :
              HeaderValueOk(headers[h]) /\ HeaderNameOk(h)} |-> headers[k]]

\* HttpRequestLike { uri: u, method: .., headers: .. } of put_hybrid_cache
HttpRequestLike(http_response, method, http_request_headers) ==
    [uri |-> http_response.url,
     method |-> method,
     headers |-> convert_headers(http_response.headers)]

\* HttpResponseLike { status: .., headers: .. } of put_hybrid_cache
HttpResponseLike(http_response, method, http_request_headers) ==
    [status |-> from_u16(http_response.status),
     headers |-> convert_headers(http_request_headers)]

\* The HttpResponse fetch_page_html_chrome_base hands to put_hybrid_cache.
HttpResponse(source, body, req_res) ==
    [url |-> source,
     body |-> body,
     status |-> req_res.status_code,
     headers |-> req_res.response_headers]

\* page.http_future(..)?.await? inside perform_chrome_http_request
NavPerform ==
    /\ n_pc = "navigate"
    /\ IF n_http_future.ok
       THEN /\ n_req_res' = Some(perform_chrome_http_request(
                                     n_source, n_http_future.request))
            /\ n_pc' = "navigated"
       ELSE /\ n_pc' = "failed"
            /\ UNCHANGED n_req_res
    /\ UNCHANGED <<n_source, n_http_future, n_policy>>
    /\ UNCHANGED <<fetch_vars, bus_vars, browser_vars, wait_vars, openai_vars>>

\* put_hybrid_cache(&key, http_response, &method, request_headers).await:
\* CachePolicy::new(&req, &res)
NavPutCache ==
    /\ n_pc = "navigated"
    /\ \E body \in RecapturedBodies :
         LET req_res == Unwrap(n_req_res)
             http_response == HttpResponse(n_source, body, req_res)
         IN  n_policy' =
                 Some([req |-> HttpRequestLike(http_response, req_res.method,
                                               req_res.request_headers),
                       res |-> HttpResponseLike(http_response, req_res.method,
                                                req_res.request_headers)])
    /\ n_pc' = "cached"
    /\ UNCHANGED <<n_source, n_http_future, n_req_res>>
    /\ UNCHANGED <<fetch_vars, bus_vars, browser_vars, wait_vars, openai_vars>>

\* One navigation of a fresh page, then the write to the hybrid cache.
InitNav ==
    /\ FetchIdle
    /\ chunk_sizes = ChunkSizes
    /\ BusInit
    /\ BrowserIdle
    /\ WaitIdle
    /\ OpenAIIdle
    /\ n_pc = "navigate"
    /\ n_source \in NavSources
    /\ n_http_future \in HttpFutures
    /\ n_req_res = None
    /\ n_policy = None

NextNav == NavPerform \/ NavPutCache

SpecNav == InitNav /\ [][NextNav]_vars

\* The response of the navigation observed, when there is one.
NavResponse == Unwrap(Unwrap(n_http_future.request).response)

HasNavResponse ==
    /\ n_http_future.ok
    /\ IsSome(n_http_future.request)
    /\ IsSome(Unwrap(n_http_future.request).response)

\* C35: once the navigation has answered with a response, waf_check is set
\* whenever the response URL does not start with the requested URL and the
\* TLS subject name is challenges.cloudflare.com or the response URL holds
\* /cdn-cgi/challenge-platform, and it is not set when the response URL
\* starts with the requested URL.
C35_ChallengeFlagged ==
    (n_req_res # None /\ HasNavResponse) =>
        LET response == NavResponse
            diverges == ~url_starts_with(response.url, n_source)
            subject ==
                /\ IsSome(response.security_details)
                /\ Unwrap(response.security_details).subject_name
                       = "challenges.cloudflare.com"
            path == url_contains(response.url, "/cdn-cgi/challenge-platform")
        IN  /\ (diverges /\ (subject \/ path)) => Unwrap(n_req_res).waf_check
            /\ ~diverges => ~Unwrap(n_req_res).waf_check

\* C36: the cache policy is built from the navigation's method, URI and
\* request headers on the request side and from the response status and
\* response headers on the response side.
C36_PolicySides ==
    n_policy # None =>
        LET req_res == Unwrap(n_req_res)
            policy == Unwrap(n_policy)
        IN  /\ policy.req.uri = n_source
            /\ policy.req.method = req_res.method
            /\ policy.req.headers = convert_headers(req_res.request_headers)
            /\ policy.res.status = req_res.status_code
            /\ policy.res.headers = convert_headers(req_res.response_headers)

(* ---------------- the resource of the AI request ---------------------- *)

\* An HTML document, as the kinds of content it holds.
Parts == {"text", "script", "svg", "nav", "attrs"}

Documents == {d \in SUBSET Parts : "text" \in d}

\* clean_html_raw: script and style elements are taken out.
clean_html_raw(html) == html \ {"script"}

\* clean_html_base: script, style, link, iframe, hidden and tracking
\* elements and comments are taken out; clean_html_raw if the rewrite fails.
clean_html_base(html, rewrite_ok) ==
    IF rewrite_ok THEN html \ {"script"} ELSE clean_html_raw(html)

\* clean_html_slim: what clean_html_base takes out, and svg, noscript,
\* canvas, video and inline images; clean_html_raw if the rewrite fails.
clean_html_slim(html, rewrite_ok) ==
    IF rewrite_ok THEN html \ {"script", "svg"} ELSE clean_html_raw(html)

\* clean_html_full: nav, footer, meta and every attribute but id and class
\* are taken out; clean_html_raw if the rewrite fails.
clean_html_full(html, rewrite_ok) ==
    IF rewrite_ok THEN html \ {"nav", "attrs"} ELSE clean_html_raw(html)

\* clean_html: clean_html_slim with the feature openai_slim_fit,
\* clean_html_base without.
clean_html(html, rewrite_ok, openai_slim_fit) ==
    IF openai_slim_fit THEN clean_html_slim(html, rewrite_ok)
    ELSE clean_html_base(html, rewrite_ok)

TokenWeight ==
    [text |-> 1, script |-> 3, svg |-> 2, nav |-> 1, attrs |-> 1]

RECURSIVE SumWeights(_)
SumWeights(parts) ==
    IF parts = {} THEN 0
    ELSE LET p == CHOOSE q \in parts : TRUE
         IN  TokenWeight[p] + SumWeights(parts \ {p})

\* encode_with_special_tokens(&resource).len()
encode_with_special_tokens(resource) == SumWeights(resource)

\* calculate_max_tokens: what the model's context leaves once the resource
\* and the prompt are in it, and max_tokens at most.
calculate_max_tokens(context, max_tokens, resource, prompt_tokens) ==
    LET used == encode_with_special_tokens(resource) + prompt_tokens
        left == IF context > used THEN context - used ELSE 0
    IN  IF left < max_tokens THEN left ELSE max_tokens

\* output_tokens_count > max_tokens, for the resource r
ExceedsBudget(args, r) ==
    encode_with_special_tokens(r) + args.prompt_tokens
        > calculate_max_tokens(args.context, args.max_tokens, r,
                               args.prompt_tokens)

MessageArgs ==
    [resource : Documents,
     prompt_tokens : {1},
     context : {2, 6, 12},
     max_tokens : {2, 6},
     rewrite_ok : BOOLEAN,
     openai_slim_fit : BOOLEAN]

MessageStep(from, to, r, stage) ==
    /\ m_pc = from
    /\ m_pc' = to
    /\ m_resource' = Some(r)
    /\ m_stages' = m_stages \o stage
    /\ UNCHANGED m_args
    /\ UNCHANGED <<fetch_vars, bus_vars, chrome_vars, prompt_vars, sem_vars>>

\* A message that carries the resource as it was given when it fits.
MessageFits_Raw ==
    LET args == Unwrap(m_args)
    IN  /\ ~ExceedsBudget(args, args.resource)
        /\ MessageStep("count", "send", args.resource, <<>>)

\* } else { clean_html(&resource) }
MessageFits ==
    LET args == Unwrap(m_args)
    IN  /\ ~ExceedsBudget(args, args.resource)
        /\ MessageStep("count", "send",
                       clean_html(args.resource, args.rewrite_ok,
                                  args.openai_slim_fit),
                       <<"clean_html">>)

\* if output_tokens_count > max_tokens { let r = clean_html(&resource);
MessageClean ==
    LET args == Unwrap(m_args)
    IN  /\ ExceedsBudget(args, args.resource)
        /\ MessageStep("count", "cleaned",
                       clean_html(args.resource, args.rewrite_ok,
                                  args.openai_slim_fit),
                       <<"clean_html">>)

\* if output_tokens_count > max_tokens { let r = clean_html_slim(&r); ..
\* } else { r }
MessageSlim ==
    LET args == Unwrap(m_args)
        r == Unwrap(m_resource)
    IN  /\ m_pc = "cleaned"
        /\ IF ExceedsBudget(args, r)
           THEN MessageStep("cleaned", "slimmed",
                            clean_html_slim(r, args.rewrite_ok),
                            <<"clean_html_slim">>)
           ELSE MessageStep("cleaned", "send", r, <<>>)

\* if output_tokens_count > max_tokens { clean_html_full(&r) } else { r }
MessageFull ==
    LET args == Unwrap(m_args)
        r == Unwrap(m_resource)
    IN  /\ m_pc = "slimmed"
        /\ IF ExceedsBudget(args, r)
           THEN MessageStep("slimmed", "send",
                            clean_html_full(r, args.rewrite_ok),
                            <<"clean_html_full">>)
           ELSE MessageStep("slimmed", "send", r, <<>>)

\* .content(&string_concat!("URL: ", url, "\n", "HTML: ", resource))
MessageContent ==
    /\ m_pc = "send"
    /\ MessageStep("send", "sent", Unwrap(m_resource), <<>>)

\* openai_request_base holding a permit, about to size its resource.
InitClean ==
    /\ FetchIdle
    /\ chunk_sizes = ChunkSizes
    /\ BusInit
    /\ BrowserIdle
    /\ WaitIdle
    /\ NavIdle
    /\ PromptIdle
    /\ SemIdle
    /\ m_pc = "count"
    /\ m_args \in {Some(a) : a \in MessageArgs}
    /\ m_resource = None
    /\ m_stages = <<>>

NextClean ==
    \/ MessageFits
    \/ MessageClean
    \/ MessageSlim
    \/ MessageFull
    \/ MessageContent

SpecClean == InitClean /\ [][NextClean]_vars

\* The outputs of the three stages for the page given.
Stage1 ==
    LET args == Unwrap(m_args)
    IN  clean_html(args.resource, args.rewrite_ok, args.openai_slim_fit)

Stage2 == clean_html_slim(Stage1, Unwrap(m_args).rewrite_ok)

Stage3 == clean_html_full(Stage2, Unwrap(m_args).rewrite_ok)

StageOrder == <<"clean_html", "clean_html_slim", "clean_html_full">>

\* C37: the resource of the message has been through clean_html; it is the
\* output of clean_html if that is within the budget, else the output of
\* clean_html_slim on it if that is within the budget, else the output of
\* clean_html_full on that; the stages applied are the first ones of the
\* three in order, a stage following only an output over the budget.
C37_CleanedToBudget ==
    LET args == Unwrap(m_args)
    IN  /\ IsPrefix(m_stages, StageOrder)
        /\ Len(m_stages) >= 2 => ExceedsBudget(args, Stage1)
        /\ Len(m_stages) >= 3 => ExceedsBudget(args, Stage2)
        /\ m_pc \in {"send", "sent"} =>
             /\ m_stages # <<>>
             /\ m_resource =
                  Some(IF ~ExceedsBudget(args, Stage1) THEN Stage1
                       ELSE IF ~ExceedsBudget(args, Stage2) THEN Stage2
                       ELSE Stage3)
             /\ Len(m_stages) =
                  IF ~ExceedsBudget(args, Stage1) THEN 1
                  ELSE IF ~ExceedsBudget(args, Stage2) THEN 2 ELSE 3

\* A message sent after all three stages, its resource still over the
\* budget and smaller than the page given.
C37_Witness ==
    /\ m_pc = "sent"
    /\ m_stages = StageOrder
    /\ ExceedsBudget(Unwrap(m_args), Unwrap(m_resource))
    /\ Unwrap(m_resource) # Unwrap(m_args).resource

====
